---- MODULE Spec2Model ----
(***************************************************************************)
(* A model of the apophis client library: the two REST API clients         *)
(* (apophis.Apophis for Kraken spot / Kraken Futures, binance.BinanceAPI)  *)
(* with their validation and bounded retry loop, and the Exchange facade   *)
(* (exchange.Exchange and its subclasses Kraken, KrakenFuture, Binance)    *)
(* with its session bookkeeping and its order placement / polling.         *)
(***************************************************************************)
EXTENDS Integers, Sequences, FiniteSets, TLC

(***************************************************************************)
(* Bounds of the model.                                                    *)
(***************************************************************************)
\* HTTP requests one query call may send before the model stops following it
MaxRequests == 5
\* the last value of the clock the threads of a shared client read
MaxClock == 4
\* polls of one order that order_log records
MaxPolls == 2
\* buy / sell calls recorded in one session
MaxCalls == 2

(***************************************************************************)
(* Method registries.                                                      *)
(***************************************************************************)
API_PUBLIC ==
    {"Time", "Assets", "AssetPairs", "Ticker", "OHLC", "Depth", "Trades",
     "Spread", "instruments", "tickers", "orderbook", "history"}

API_PRIVATE_GET ==
    {"accounts", "openorders", "fills", "openpositions", "transfers",
     "notifications", "historicorders", "recentorders"}

API_PRIVATE_POST ==
    {"Balance", "BalanceEx", "TradeBalance", "OpenOrders", "ClosedOrders",
     "QueryOrders", "TradesHistory", "QueryTrades", "OpenPositions", "Ledgers",
     "QueryLedgers", "TradeVolume", "AddExport", "ExportStatus",
     "RetrieveExport", "RemoveExport", "GetWebSocketsToken", "AddOrder",
     "CancelOrder", "CancelAll", "transfer", "sendorder", "cancelorder",
     "cancelallorders", "cancelallordersafter", "batchorder", "withdrawal"}

API_METHODS == API_PUBLIC \cup API_PRIVATE_GET \cup API_PRIVATE_POST

BINANCE_API_PUBLIC ==
    {"ping", "time", "exchangeInfo", "depth", "trades", "aggTrades",
     "avgPrice", "ticker/24hr", "ticker/price", "ticker/bookTicker"}

BINANCE_API_PUBLIC_KEY == {"historicalTrades"}

BINANCE_API_SIGNED == {"order/test", "order", "openOrders", "allOrders"}

BINANCE_API_METHODS ==
    BINANCE_API_PUBLIC \cup BINANCE_API_PUBLIC_KEY \cup BINANCE_API_SIGNED

\* the CRUD verbs BinanceAPI.query accepts
BINANCE_VERBS == {"get", "post", "put", "delete"}

(***************************************************************************)
(* State.                                                                  *)
(***************************************************************************)
VARIABLES
    \* --- the API client (Apophis or BinanceAPI instance) ---
    api,            \* "Apophis" or "BinanceAPI": the class of the client
    future,         \* Apophis.future
    api_key,        \* "None" or a key
    api_secret,     \* "None" or a secret
    \* --- one query call on the client ---
    qpc,            \* "idle", "loop", "inflight", "returned", "raised"
    q_method,       \* Apophis: method; BinanceAPI: endpoint
    q_verb,         \* the HTTP verb of the call
    endpoint,       \* URL path of the request
    headers,        \* names of the headers of the request
    api_call,       \* the attempt counter of the retry loop
    slept,          \* the time.sleep durations of this call, in order
    nreq,           \* HTTP requests sent by this call
    n_business,     \* responses of this call classified as business errors
    nsign,          \* _sign_message runs of this call
    nlock,          \* lock acquisitions of this call
    lock,           \* BinanceAPI.lock is held
    response,       \* the response the call last received
    error,          \* the error of the last classified response
    exc,            \* the exception the call raised
    ticks,          \* the clock, in ms since the call was entered
    caller_data,    \* the parameter map the call was entered with
    data,           \* the local `data` of query: what a request carries
    auth,           \* the nonce and signature in the headers (Apophis)
    nonces,         \* the nonces of the signed requests this call sent
    \* --- the exchange session (Exchange instance) ---
    exchange,       \* "Kraken", "KrakenFuture" or "Binance"
    live,           \* Exchange.live
    fee_maker,      \* in 1/10000
    fee_taker,      \* in 1/10000
    fee,            \* cumulative fee, in 1/10000 of the quote currency
    n_buy,
    n_sell,
    open_sessions,  \* the HTTP transport sessions that are open
    swallowed,      \* exceptions the facade caught and did not raise again
    \* --- one facade operation ---
    opc,            \* position inside the running facade operation
    op,             \* [name, volume, price, stage]: the running operation
    txid,           \* the order id the venue returned on submit
    order_log,      \* events of the last _order call, in order; of the
                    \* polls it records the first MaxPolls
    calls,          \* history: the buy / sell calls that returned
    \* --- threads that share one BinanceAPI client ---
    threads,        \* per thread: [pc, api_call, stamp, got]
    clock,          \* time.time(), in ms
    server,         \* the timestamps of the requests, as they arrived
    shared,         \* self.response of the shared client
    \* --- the signer, run on its own ---
    runs,           \* the _sign_message runs made: input, clock, output
    \* --- trades and candles ---
    market,         \* the trades of the venue, oldest first
    since,          \* the window asked for
    until,
    cursor,         \* the locals of the _trades loop
    trade_data,     \* the trades _trades collected
    candles,        \* the rows ohlc_from_trades returns
    cpc             \* "args", "trades", "fetched", "done"

clientVars == <<api, future, api_key, api_secret>>
queryVars == <<qpc, q_method, q_verb, endpoint, headers, api_call, slept,
               nreq, n_business, nsign, nlock, lock, response, error, exc,
               ticks, caller_data, data, auth, nonces>>
sessionVars == <<exchange, live, fee_maker, fee_taker, fee, n_buy, n_sell,
                 open_sessions, swallowed>>
opVars == <<opc, op, txid, order_log, calls>>
threadVars == <<threads, clock, server, shared>>
candleVars == <<market, since, until, cursor, trade_data, candles, cpc>>
\* what a step of one client call or of the facade leaves alone
asideVars == <<threadVars, candleVars, runs>>
vars == <<clientVars, queryVars, sessionVars, opVars, asideVars>>

None == "None"

(***************************************************************************)
(* HTTP responses.  A response is its status code and its JSON body; the   *)
(* body is the set of its top-level keys and the values the code reads.    *)
(* A Python value that is falsy (empty list, empty string) is <<>>.        *)
(***************************************************************************)
\* the status codes the retry loop accepts
ACCEPTED_STATUS == {200, 201, 202}

\* requests.Response.raise_for_status raises for 4xx and 5xx only
RaisesForStatus(status) == 400 =< status /\ status < 600

NoResponse ==
    [status |-> 0, keys |-> {}, error |-> <<>>, result |-> "", msg |-> "",
     txid |-> 0, closed |-> {}, order_status |-> "", order_fee |-> 0]

NoException == [type |-> "none", msg |-> "", listed |-> {}, error |-> <<>>,
                url |-> "", params |-> <<>>]


\* status codes a venue answers with
Statuses == {200, 203, 404}

\* order ids a venue hands out
Ids == {1, 2}

\* fees a venue reports for a closed order (Kraken), in 1/10000
VenueFees == {7}

\* bodies without an order payload: what the retry loop classifies
PlainBodies ==
    IF api = "BinanceAPI"
    THEN { [NoResponse EXCEPT !.keys = {"serverTime"}],
           [NoResponse EXCEPT !.keys = {"code", "msg"},
                              !.msg = "Too many requests"] }
    ELSE IF ~future
    THEN { [NoResponse EXCEPT !.keys = {"error", "result"}],
           [NoResponse EXCEPT !.keys = {"error"},
                              !.error = <<"EAPI:Rate limit exceeded">>],
           [NoResponse EXCEPT !.keys = {"result"}] }
    ELSE { [NoResponse EXCEPT !.keys = {"result", "serverTime"},
                              !.result = "success"],
           [NoResponse EXCEPT !.keys = {"result", "error"},
                              !.result = "error",
                              !.error = <<"apiLimitExceeded">>],
           [NoResponse EXCEPT !.keys = {"result", "error"},
                              !.result = "error"],
           [NoResponse EXCEPT !.keys = {"serverTime"}] }

\* the bodies a venue may answer a submitted order with
SubmitBodies ==
    IF api = "BinanceAPI"
    THEN { [NoResponse EXCEPT !.keys = {"clientOrderId"}, !.txid = i] : i \in Ids }
         \cup { [NoResponse EXCEPT !.keys = {"symbol"}] }
    ELSE IF ~future
    THEN { [NoResponse EXCEPT !.keys = {"error", "result", "txid"},
                              !.txid = i] : i \in Ids }
         \cup { [NoResponse EXCEPT !.keys = {"error", "result"}] }
    ELSE { [NoResponse EXCEPT !.keys = {"result", "sendStatus"},
                              !.result = "success", !.txid = i,
                              !.order_status = "placed"] : i \in Ids }
         \cup { [NoResponse EXCEPT !.keys = {"result", "sendStatus"},
                                   !.result = "success",
                                   !.order_status = "insufficientAvailableFunds"] }

\* the bodies a venue may answer a poll with
PollBodies ==
    IF api = "BinanceAPI"
    THEN { [NoResponse EXCEPT !.keys = {"status"}, !.order_status = s] :
             s \in {"NEW", "FILLED"} }
    ELSE IF ~future
    THEN { [NoResponse EXCEPT !.keys = {"error", "result"}, !.closed = c,
                              !.order_fee = f] :
             c \in SUBSET Ids, f \in VenueFees }
    ELSE { [NoResponse EXCEPT !.keys = {"result", "fills"},
                              !.result = "success", !.closed = c] :
             c \in SUBSET Ids }

\* the methods / endpoints the facade submits an order and polls it with
SubmitMethods == {"AddOrder", "sendorder"}
PollMethods == {"ClosedOrders", "fills"}

\* the bodies with the payload the request in flight asks for
PayloadBodies ==
    IF q_method \in SubmitMethods \/ (q_method = "order" /\ q_verb = "post")
    THEN SubmitBodies
    ELSE IF q_method \in PollMethods \/ (q_method = "order" /\ q_verb = "get")
    THEN PollBodies
    ELSE {}

\* every response the venue may give to the request in flight
Responses ==
    { [b EXCEPT !.status = s] : b \in PlainBodies \cup PayloadBodies,
                                s \in Statuses }

\* status codes a venue answers the queries of a session with
SessionStatuses == {200, 404}

\* the responses the venue may give to a query of a session: a payload comes
\* with status 200
SessionResponses ==
    { [b EXCEPT !.status = s] : b \in PlainBodies, s \in SessionStatuses }
    \cup { [b EXCEPT !.status = 200] : b \in PayloadBodies }

(***************************************************************************)
(* Parameter maps.  A Python dict is the sequence of its items in          *)
(* insertion order; a value is a number or an HMAC digest, which is        *)
(* the secret and the message it was computed from.                        *)
(***************************************************************************)
Plain(n) == [n |-> n, hmac |-> <<>>]

Hmac(secret, message) == [n |-> 0, hmac |-> <<[secret |-> secret, msg |-> message]>>]

Entry(key, value) == [k |-> key, v |-> value]

Has(map, key) == \E i \in DOMAIN map : map[i].k = key

Get(map, key) == map[CHOOSE i \in DOMAIN map : map[i].k = key].v

MapKeys(map) == {map[i].k : i \in DOMAIN map}

\* dict.update({key: value}) and d[key] = value: a key the map holds keeps
\* its place, a new key goes to the end
Update(map, key, value) ==
    IF Has(map, key)
    THEN [i \in DOMAIN map |-> IF map[i].k = key THEN Entry(key, value) ELSE map[i]]
    ELSE Append(map, Entry(key, value))

\* the parameters a caller passes to query
CallerMaps ==
    {<<>>,
     <<Entry("symbol", Plain(7))>>,
     <<Entry("symbol", Plain(7)), Entry("recvWindow", Plain(1000))>>}

\* the nonce and signature of an unsigned request
NoAuth == [nonce |-> -1, signature |-> Plain(0)]

(***************************************************************************)
(* API clients: validation, signing, the retry loop.                       *)
(***************************************************************************)
\* the window BinanceAPI._sign_message adds when the caller gave none
RECV_WINDOW == 5000

\* the digits of base64
B64_ALPHABET ==
    {"A", "B", "C", "D", "E", "F", "G", "H", "I", "J", "K", "L", "M",
     "N", "O", "P", "Q", "R", "S", "T", "U", "V", "W", "X", "Y", "Z",
     "a", "b", "c", "d", "e", "f", "g", "h", "i", "j", "k", "l", "m",
     "n", "o", "p", "q", "r", "s", "t", "u", "v", "w", "x", "y", "z",
     "0", "1", "2", "3", "4", "5", "6", "7", "8", "9", "+", "/"}

\* the characters of the secrets of the model
SecretChars(secret) ==
    CASE secret = "c2VjcmV0" -> <<"c", "2", "V", "j", "c", "m", "V", "0">>
      [] secret = "b3RoZXI=" -> <<"b", "3", "R", "o", "Z", "X", "I", "=">>
      [] secret = "abc" -> <<"a", "b", "c">>
      [] secret = "abcd!!!!" -> <<"a", "b", "c", "d", "!", "!", "!", "!">>
      [] OTHER -> <<>>

\* base64.b64decode(secret), validate=False: characters that are no digits
\* are dropped, then the digits must fill groups of four, the last one with
\* the help of padding; ok is FALSE where b64decode raises binascii.Error
B64Decode(secret) ==
    LET chars == SecretChars(secret)
        digits == SelectSeq(chars, LAMBDA c : c \in B64_ALPHABET)
        pads == Cardinality({i \in DOMAIN chars : chars[i] = "="})
        rest == Len(digits) % 4
    IN  [ok |-> \/ rest = 0
                \/ (rest = 2 /\ pads >= 2)
                \/ (rest = 3 /\ pads >= 1),
         digits |-> digits]

\* a spot signer that works on a copy: the nonce is signed but never reaches
\* the map of the caller
ApophisSignMessage_on_copy(secret, map, path, now) ==
    [data |-> map,
     raised |-> ~B64Decode(secret).ok,
     auth |-> [nonce |-> now,
               signature |-> Hmac(secret, <<Entry(path, Plain(now))>> \o map)]]

\* Apophis._sign_message(data, endpoint) at clock value now: the map as the
\* signer leaves it, whether decoding the secret raises, and the nonce and
\* signature of the headers (the key of the HMAC is the decoded secret, named
\* here by the secret it is decoded from)
ApophisSignMessage(secret, map, path, now) ==
    LET signed == IF ~future THEN Update(map, "nonce", Plain(now)) ELSE map
        message == IF ~future
                   THEN <<Entry(path, Plain(now))>> \o signed
                   ELSE signed \o <<Entry(path, Plain(now))>>
    IN  [data |-> signed,
         raised |-> ~B64Decode(secret).ok,
         auth |-> [nonce |-> now, signature |-> Hmac(secret, message)]]

\* a signer that stamps the map before it gives it a window
BinanceSignMessage_window_last(secret, map, now) ==
    LET stamped == Update(map, "timestamp", Plain(now))
        windowed == IF Has(map, "recvWindow") THEN stamped
                    ELSE Update(stamped, "recvWindow", Plain(RECV_WINDOW))
    IN  Update(windowed, "signature", Hmac(secret, windowed))

\* BinanceAPI._sign_message(data) at clock value now: the signed copy
BinanceSignMessage(secret, map, now) ==
    LET windowed == IF Has(map, "recvWindow") THEN map
                    ELSE Update(map, "recvWindow", Plain(RECV_WINDOW))
        stamped == Update(windowed, "timestamp", Plain(now))
    IN  Update(stamped, "signature", Hmac(secret, stamped))

\* a schedule that keeps growing
sleeper_growing == <<0, 2, 4, 8>>

\* the backoff schedule of the retry loop (Python index i is sleeper[i + 1])
sleeper == <<0, 2, 4, 0>>

\* attempts of the retry loop
MAX_ATTEMPTS == 4

uri ==
    IF api = "BinanceAPI" THEN "https://api.binance.com"
    ELSE IF future THEN "https://futures.kraken.com/derivatives"
    ELSE "https://api.kraken.com"

apiversion == IF api = "Apophis" /\ ~future THEN "/0/" ELSE "/api/v3/"

\* the header names Apophis._sign_message returns
SignedHeaders ==
    IF ~future THEN {"API-Key", "API-Sign"} ELSE {"APIKey", "Nonce", "Authent"}

\* a check that asks for both to be absent
MissingCredentials_both == api_key = None /\ api_secret = None

\* the client holds no usable key / secret pair
MissingCredentials == api_key = None \/ api_secret = None

\* a call ends by raising e before the retry loop is entered
RaiseEarly(method, verb, map, e) ==
    /\ qpc' = "raised"
    /\ ticks' = 0
    /\ caller_data' = map
    /\ data' = map
    /\ auth' = NoAuth
    /\ nonces' = <<>>
    /\ exc' = e
    /\ q_method' = method
    /\ q_verb' = verb
    /\ endpoint' = ""
    /\ headers' = {}
    /\ api_call' = 0
    /\ slept' = <<>>
    /\ nreq' = 0
    /\ n_business' = 0
    /\ nsign' = 0
    /\ nlock' = 0
    /\ error' = <<>>
    /\ response' = NoResponse
    /\ UNCHANGED lock

\* _sign_message raises while query builds the headers: the call ends
\* before _query, with the map as the signer left it
SigningRaises(method, verb, map, path) ==
    /\ qpc' = "raised"
    /\ exc' = [NoException EXCEPT !.type = "binascii.Error"]
    /\ ticks' = 0
    /\ data' = ApophisSignMessage(api_secret, map, path, 0).data
    /\ caller_data' = ApophisSignMessage(api_secret, map, path, 0).data
    /\ auth' = NoAuth
    /\ nonces' = <<>>
    /\ q_method' = method
    /\ q_verb' = verb
    /\ endpoint' = ""
    /\ headers' = {}
    /\ api_call' = 0
    /\ slept' = <<>>
    /\ nreq' = 0
    /\ n_business' = 0
    /\ nsign' = 1
    /\ nlock' = 0
    /\ error' = <<>>
    /\ response' = NoResponse
    /\ UNCHANGED lock

\* a call enters the retry loop
EnterLoop(method, verb, map, path, hdrs, signs) ==
    /\ qpc' = "loop"
    /\ ticks' = 0
    /\ nonces' = <<>>
    /\ IF signs = 1
       THEN LET out == ApophisSignMessage(api_secret, map, path, 0)
            IN  /\ data' = out.data
                /\ caller_data' = out.data
                /\ auth' = out.auth
       ELSE /\ data' = map
            /\ caller_data' = map
            /\ auth' = NoAuth
    /\ exc' = NoException
    /\ q_method' = method
    /\ q_verb' = verb
    /\ endpoint' = path
    /\ headers' = hdrs
    /\ api_call' = 0
    /\ slept' = <<>>
    /\ nreq' = 0
    /\ n_business' = 0
    /\ nsign' = signs
    /\ nlock' = 0
    /\ error' = <<>>
    /\ response' = NoResponse
    /\ UNCHANGED lock

\* Apophis.query with one sub-path for every method of the spot venue
ApophisQuery_one_path(method, map) ==
    LET private == method \in API_PRIVATE_GET \/ method \in API_PRIVATE_POST
        verb == IF method \in API_PRIVATE_GET \/ method \in API_PUBLIC
                THEN "get" ELSE "post"
        path == IF ~future THEN apiversion \o "public/" \o method
                           ELSE apiversion \o method
    IN  IF method \notin API_METHODS
        THEN RaiseEarly(method, "", map,
                 [NoException EXCEPT !.type = "ValueError",
                                     !.msg = "Method does not exists",
                                     !.listed = API_METHODS])
        ELSE IF private /\ MissingCredentials
        THEN RaiseEarly(method, "", map,
                 [NoException EXCEPT !.type = "ConnectionError",
                                     !.msg = "Need API keys to connect"])
        ELSE IF private
        THEN IF ApophisSignMessage(api_secret, map, path, 0).raised
             THEN SigningRaises(method, verb, map, path)
             ELSE EnterLoop(method, verb, map, path, SignedHeaders, 1)
        ELSE EnterLoop(method, verb, map, path, {}, 0)

ApophisQuery(method, map) ==
    LET private == method \in API_PRIVATE_GET \/ method \in API_PRIVATE_POST
        verb == IF method \in API_PRIVATE_GET \/ method \in API_PUBLIC
                THEN "get" ELSE "post"
    IN  IF method \notin API_METHODS
        THEN RaiseEarly(method, "", map,
                 [NoException EXCEPT !.type = "ValueError",
                                     !.msg = "Method does not exists",
                                     !.listed = API_METHODS])
        ELSE IF private /\ MissingCredentials
        THEN RaiseEarly(method, "", map,
                 [NoException EXCEPT !.type = "ConnectionError",
                                     !.msg = "Need API keys to connect"])
        ELSE IF private
        THEN LET path == IF ~future THEN apiversion \o "private/" \o method
                                    ELSE apiversion \o method
             IN  IF ApophisSignMessage(api_secret, map, path, 0).raised
                 THEN SigningRaises(method, verb, map, path)
                 ELSE EnterLoop(method, verb, map, path, SignedHeaders, 1)
        ELSE EnterLoop(method, verb, map,
                 IF ~future THEN apiversion \o "public/" \o method
                            ELSE apiversion \o method,
                 {}, 0)

\* BinanceAPI.query with the verb looked at before the endpoint
BinanceQuery_verb_first(verb, method, map) ==
    LET private == method \in BINANCE_API_PUBLIC_KEY \/ method \in BINANCE_API_SIGNED
    IN  IF verb \notin BINANCE_VERBS
        THEN RaiseEarly(method, verb, map,
                 [NoException EXCEPT !.type = "KeyError",
                                     !.msg = "Invalid method"])
        ELSE IF method \notin BINANCE_API_METHODS
        THEN RaiseEarly(method, verb, map,
                 [NoException EXCEPT !.type = "ValueError",
                                     !.msg = "Endpoint does not exists",
                                     !.listed = BINANCE_API_METHODS])
        ELSE IF private /\ MissingCredentials
        THEN RaiseEarly(method, verb, map,
                 [NoException EXCEPT !.type = "ConnectionError",
                                     !.msg = "Need API keys to connect"])
        ELSE EnterLoop(method, verb, map, apiversion \o method, {}, 0)

BinanceQuery(verb, method, map) ==
    LET private == method \in BINANCE_API_PUBLIC_KEY \/ method \in BINANCE_API_SIGNED
    IN  IF method \notin BINANCE_API_METHODS
        THEN RaiseEarly(method, verb, map,
                 [NoException EXCEPT !.type = "ValueError",
                                     !.msg = "Endpoint does not exists",
                                     !.listed = BINANCE_API_METHODS])
        ELSE IF private /\ MissingCredentials
        THEN RaiseEarly(method, verb, map,
                 [NoException EXCEPT !.type = "ConnectionError",
                                     !.msg = "Need API keys to connect"])
        ELSE IF verb \notin BINANCE_VERBS
        THEN RaiseEarly(method, verb, map,
                 [NoException EXCEPT !.type = "KeyError",
                                     !.msg = "Invalid method"])
        ELSE EnterLoop(method, verb, map, apiversion \o method, {}, 0)

\* client.query, on whichever client the session holds
query(verb, method, map) ==
    IF api = "BinanceAPI" THEN BinanceQuery(verb, method, map)
                          ELSE ApophisQuery(method, map)


\* one pass through the head of the retry loop: the request is dispatched.
\* BinanceAPI takes the lock and signs on every attempt; Apophis signed once,
\* before the loop.
Send ==
    /\ qpc = "loop"
    /\ api_call < MAX_ATTEMPTS
    /\ nreq < MaxRequests
    /\ qpc' = "inflight"
    /\ nreq' = nreq + 1
    /\ ticks' = ticks + 1
    /\ IF api = "BinanceAPI"
       THEN LET private == q_method \in BINANCE_API_PUBLIC_KEY
                           \/ q_method \in BINANCE_API_SIGNED
            IN  /\ lock = FALSE
                /\ lock' = TRUE
                /\ nlock' = nlock + 1
                /\ nsign' = IF private THEN nsign + 1 ELSE nsign
                /\ headers' = IF private THEN {"X-MBX-APIKEY"} ELSE headers
                /\ data' = IF private
                           THEN BinanceSignMessage(api_secret, data, ticks)
                           ELSE data
                /\ nonces' = IF q_method \in BINANCE_API_SIGNED
                             THEN Append(nonces, ticks) ELSE nonces
       ELSE /\ nonces' = IF auth = NoAuth THEN nonces
                                          ELSE Append(nonces, auth.nonce)
            /\ UNCHANGED <<lock, nlock, nsign, headers, data>>
    /\ UNCHANGED <<caller_data, auth>>
    /\ UNCHANGED <<q_method, q_verb, endpoint, api_call, slept, n_business,
                   response, error, exc>>
    /\ UNCHANGED <<clientVars, sessionVars, opVars, asideVars>>

\* a predicate for which every failure of the futures venue is an error
ClassifiedError_any_failure(resp) ==
    IF api = "BinanceAPI"
    THEN IF "code" \in resp.keys THEN <<resp.msg>> ELSE <<>>
    ELSE IF ~future
    THEN resp.error
    ELSE IF resp.result = "success" THEN <<>>
    ELSE IF resp.error = <<>> THEN <<"failure">>
    ELSE resp.error

\* the error the venue's predicate reads from a body; <<>> is "no error"
\* (Apophis: a falsy error, BinanceAPI: error is None)
ClassifiedError(resp) ==
    IF api = "BinanceAPI"
    THEN IF "code" \in resp.keys THEN <<resp.msg>> ELSE <<>>
    ELSE IF ~future
    THEN resp.error
    ELSE IF resp.result = "success" THEN <<>> ELSE resp.error

\* reading the body raises KeyError: resp["error"] or resp["result"] is absent
BodyKeyError(resp) ==
    /\ api = "Apophis"
    /\ IF ~future
       THEN "error" \notin resp.keys
       ELSE \/ "result" \notin resp.keys
            \/ (resp.result # "success" /\ "error" \notin resp.keys)

\* the rest of the pass: the response is received and looked at
Receive(resp) ==
    /\ qpc = "inflight"
    /\ response' = resp
    /\ lock' = FALSE
    /\ IF BodyKeyError(resp)
       THEN /\ qpc' = "raised"
            /\ exc' = [NoException EXCEPT !.type = "KeyError"]
            /\ UNCHANGED <<api_call, slept, error, n_business>>
       ELSE IF ClassifiedError(resp) # <<>>
       THEN /\ error' = ClassifiedError(resp)
            /\ slept' = Append(slept, sleeper[api_call + 1])
            /\ api_call' = api_call + 1
            /\ n_business' = n_business + 1
            /\ qpc' = "loop"
            /\ UNCHANGED exc
       ELSE IF resp.status \notin ACCEPTED_STATUS
       THEN IF RaisesForStatus(resp.status)
            THEN /\ qpc' = "raised"
                 /\ exc' = [NoException EXCEPT !.type = "HTTPError"]
                 /\ error' = <<>>
                 /\ UNCHANGED <<api_call, slept, n_business>>
            ELSE /\ qpc' = "loop"
                 /\ error' = <<>>
                 /\ UNCHANGED <<api_call, slept, exc, n_business>>
       ELSE /\ qpc' = "returned"
            /\ error' = <<>>
            /\ UNCHANGED <<api_call, slept, exc, n_business>>
    /\ UNCHANGED <<q_method, q_verb, endpoint, headers, nreq, nsign, nlock>>
    /\ UNCHANGED <<ticks, caller_data, data, auth, nonces>>
    /\ UNCHANGED <<clientVars, sessionVars, opVars, asideVars>>

\* the loop condition fails: the else branch of the while raises
Exhausted ==
    /\ qpc = "loop"
    /\ ~(api_call < MAX_ATTEMPTS)
    /\ qpc' = "raised"
    /\ exc' = [NoException EXCEPT !.type = "ConnectionError",
                                  !.error = error,
                                  !.url = uri \o endpoint,
                                  !.params = data]
    /\ UNCHANGED <<q_method, q_verb, endpoint, headers, api_call, slept, nreq,
                   n_business, nsign, nlock, lock, response, error>>
    /\ UNCHANGED <<ticks, caller_data, data, auth, nonces>>
    /\ UNCHANGED <<clientVars, sessionVars, opVars, asideVars>>

(***************************************************************************)
(* A caller that uses the client directly.                                 *)
(***************************************************************************)
\* the method / endpoint names a caller tries: some of each registry of each
\* client, and names of no registry
CallerMethods ==
    {"Ticker", "tickers", "accounts", "Balance", "sendorder",
     "time", "historicalTrades", "order", "toto"}

CallerVerbs == {"get", "post", "patch"}

QueryDone == qpc \in {"idle", "returned", "raised"}

CallQuery(verb, method, map) ==
    /\ QueryDone
    /\ opc = "idle"
    /\ query(verb, method, map)
    /\ UNCHANGED <<clientVars, sessionVars, opVars, asideVars>>

(***************************************************************************)
(* The Exchange facade: buy / sell, _order of the three venues, the other  *)
(* operations.  A facade operation that calls client.query waits at opc    *)
(* until the call has returned or raised, and then goes on.                *)
(***************************************************************************)
Volumes == {1, 2}
Prices == {3}

\* the frame of a finished query call goes away when its caller goes on
ConsumeFrame ==
    /\ qpc' = "idle"
    /\ q_method' = ""
    /\ q_verb' = ""
    /\ endpoint' = ""
    /\ headers' = {}
    /\ api_call' = 0
    /\ slept' = <<>>
    /\ nreq' = 0
    /\ n_business' = 0
    /\ nsign' = 0
    /\ nlock' = 0
    /\ error' = <<>>
    /\ exc' = NoException
    /\ response' = NoResponse
    /\ ticks' = 0
    /\ caller_data' = <<>>
    /\ data' = <<>>
    /\ auth' = NoAuth
    /\ nonces' = <<>>
    /\ UNCHANGED lock

NoOp == [name |-> "", volume |-> 0, price |-> 0, stage |-> 0]

\* a rejection that carries a fee of zero
OrderRejected_zero_fee == [placed |-> FALSE, fee |-> <<0>>]

\* what _order returns for an order the venue did not accept: (False, None).
\* A fee is <<n>>, None is <<>>.
OrderRejected == [placed |-> FALSE, fee |-> <<>>]

\* a simulated buy charged at the maker rate
BuyFee_maker(volume, price) == volume * price * fee_maker

\* the fee of a simulated buy
BuyFee(volume, price) == volume * price * fee_taker

\* the fee of a simulated sell
SellFee(volume, price) == volume * price * fee_maker

\* a buy that counts itself whether or not it was processed
BuyReturn_unconditional(volume, price, processed, order_fee) ==
    /\ fee' = IF processed THEN fee + order_fee[1] ELSE fee
    /\ n_buy' = n_buy + 1
    /\ calls' = Append(calls, [side |-> "buy", volume |-> volume,
                               price |-> price, processed |-> processed,
                               fee |-> order_fee])
    /\ UNCHANGED <<n_sell, exchange, live, fee_maker, fee_taker, open_sessions,
                   swallowed>>

\* the tail of Exchange.buy: the bookkeeping and the return
BuyReturn(volume, price, processed, order_fee) ==
    /\ fee' = IF processed THEN fee + order_fee[1] ELSE fee
    /\ n_buy' = IF processed THEN n_buy + 1 ELSE n_buy
    /\ calls' = Append(calls, [side |-> "buy", volume |-> volume,
                               price |-> price, processed |-> processed,
                               fee |-> order_fee])
    /\ UNCHANGED <<n_sell, exchange, live, fee_maker, fee_taker, open_sessions,
                   swallowed>>

\* the tail of Exchange.sell
SellReturn(volume, price, processed, order_fee) ==
    /\ fee' = IF processed THEN fee + order_fee[1] ELSE fee
    /\ n_sell' = IF processed THEN n_sell + 1 ELSE n_sell
    /\ calls' = Append(calls, [side |-> "sell", volume |-> volume,
                               price |-> price, processed |-> processed,
                               fee |-> order_fee])
    /\ UNCHANGED <<n_buy, exchange, live, fee_maker, fee_taker, open_sessions,
                   swallowed>>

\* the payload of an order, as far as the signer looks at it
Payload == <<Entry("symbol", Plain(7))>>

\* _order up to its first client.query: the order is submitted
OrderSubmit ==
    IF exchange = "Kraken" THEN query("post", "AddOrder", Payload)
    ELSE IF exchange = "KrakenFuture" THEN query("post", "sendorder", Payload)
    ELSE query("post", "order", Payload)

\* _order polls the venue for the order
OrderPoll ==
    IF exchange = "Kraken" THEN query("post", "ClosedOrders", <<>>)
    ELSE IF exchange = "KrakenFuture" THEN query("get", "fills", <<>>)
    ELSE query("get", "order", Payload)

\* Exchange.buy: simulated, or live up to the submission of the order
buy(volume, price) ==
    /\ opc = "idle"
    /\ api \in open_sessions
    /\ Len(calls) < MaxCalls
    /\ IF live
       THEN /\ op' = [NoOp EXCEPT !.name = "buy", !.volume = volume,
                                  !.price = price]
            /\ opc' = "submit"
            /\ order_log' = <<"submit">>
            /\ txid' = 0
            /\ OrderSubmit
            /\ UNCHANGED <<calls, sessionVars>>
       ELSE /\ BuyReturn(volume, price, TRUE, <<BuyFee(volume, price)>>)
            /\ UNCHANGED <<opc, op, txid, order_log, queryVars>>
    /\ UNCHANGED <<clientVars, asideVars>>

\* Exchange.sell: simulated, or live up to the submission of the order
sell(volume, price) ==
    /\ opc = "idle"
    /\ api \in open_sessions
    /\ Len(calls) < MaxCalls
    /\ IF live
       THEN /\ op' = [NoOp EXCEPT !.name = "sell", !.volume = volume,
                                  !.price = price]
            /\ opc' = "submit"
            /\ order_log' = <<"submit">>
            /\ txid' = 0
            /\ OrderSubmit
            /\ UNCHANGED <<calls, sessionVars>>
       ELSE /\ SellReturn(volume, price, TRUE, <<SellFee(volume, price)>>)
            /\ UNCHANGED <<opc, op, txid, order_log, queryVars>>
    /\ UNCHANGED <<clientVars, asideVars>>

\* the venue accepted the order: the submit response carries its id
Accepted(resp) ==
    IF exchange = "Kraken" THEN "txid" \in resp.keys
    ELSE IF exchange = "KrakenFuture" THEN resp.order_status = "placed"
    ELSE "clientOrderId" \in resp.keys

\* a poll that takes any closed order for the one submitted
Completed_any_order(resp, id) ==
    IF exchange = "Kraken" THEN resp.closed # {}
    ELSE IF exchange = "KrakenFuture" THEN resp.closed # {}
    ELSE resp.order_status = "FILLED"

\* the poll response reports order id as complete
Completed(resp, id) ==
    IF exchange = "Kraken" THEN id \in resp.closed
    ELSE IF exchange = "KrakenFuture" THEN id \in resp.closed
    ELSE resp.order_status = "FILLED"

\* _order reads a key the body does not hold: KeyError
SubmitKeyError(resp) ==
    IF exchange = "Kraken" THEN "result" \notin resp.keys
    ELSE IF exchange = "KrakenFuture" THEN "sendStatus" \notin resp.keys
    ELSE FALSE

PollKeyError(resp) ==
    IF exchange = "Kraken" THEN "closed" \notin resp.keys
    ELSE IF exchange = "KrakenFuture" THEN "fills" \notin resp.keys
    ELSE "status" \notin resp.keys

\* `type == "buy"` in _order compares the builtin type with a string
TypeIsBuy == FALSE

\* the fee _order returns for a completed order
OrderFee(resp, volume, price) ==
    IF exchange = "Kraken" THEN resp.order_fee
    ELSE IF exchange = "KrakenFuture"
    THEN IF TypeIsBuy THEN volume * price * fee_taker
                      ELSE volume * price * fee_maker
    ELSE IF TypeIsBuy THEN fee_taker ELSE fee_maker

\* buy / sell returns what _order returned
TradeReturn(processed, order_fee) ==
    /\ IF op.name = "buy"
       THEN BuyReturn(op.volume, op.price, processed, order_fee)
       ELSE SellReturn(op.volume, op.price, processed, order_fee)
    /\ opc' = "idle"
    /\ op' = NoOp

\* an exception that leaves the operation after the order was counted
OperationRaises_counted ==
    /\ opc' = "idle"
    /\ op' = NoOp
    /\ n_buy' = n_buy + 1
    /\ UNCHANGED <<txid, calls, exchange, live, fee_maker, fee_taker, fee,
                   n_sell, open_sessions, swallowed>>

\* an exception leaves the running operation: nothing of the session changes
OperationRaises ==
    /\ opc' = "idle"
    /\ op' = NoOp
    /\ UNCHANGED <<txid, calls, sessionVars>>

\* _order after the submit query returned
OrderSubmitted ==
    /\ opc = "submit"
    /\ qpc = "returned"
    /\ IF SubmitKeyError(response)
       THEN /\ OperationRaises
            /\ order_log' = Append(order_log, "raised")
            /\ ConsumeFrame
       ELSE IF ~Accepted(response)
       THEN /\ TradeReturn(OrderRejected.placed, OrderRejected.fee)
            /\ order_log' = Append(order_log, "rejected")
            /\ UNCHANGED txid
            /\ ConsumeFrame
       ELSE /\ txid' = response.txid
            /\ order_log' = order_log \o <<"accepted", "sleep5", "poll">>
            /\ opc' = "poll"
            /\ OrderPoll
            /\ UNCHANGED <<op, calls, sessionVars>>
    /\ UNCHANGED <<clientVars, asideVars>>

\* polls sent for the running order
Polls == Cardinality({i \in DOMAIN order_log : order_log[i] = "poll"})

\* a poll loop that gives the order up after MaxPolls polls
OrderPolled_gives_up ==
    /\ opc = "poll"
    /\ qpc = "returned"
    /\ IF PollKeyError(response)
       THEN /\ OperationRaises
            /\ order_log' = Append(order_log, "raised")
            /\ ConsumeFrame
       ELSE IF Completed(response, txid)
       THEN /\ TradeReturn(TRUE, <<OrderFee(response, op.volume, op.price)>>)
            /\ order_log' = Append(order_log, "complete")
            /\ UNCHANGED txid
            /\ ConsumeFrame
       ELSE IF Polls >= MaxPolls
       THEN /\ TradeReturn(OrderRejected.placed, OrderRejected.fee)
            /\ order_log' = Append(order_log, "timeout")
            /\ UNCHANGED txid
            /\ ConsumeFrame
       ELSE /\ order_log' = order_log \o <<"pending", "sleep5", "poll">>
            /\ OrderPoll
            /\ UNCHANGED <<opc, op, txid, calls, sessionVars>>
    /\ UNCHANGED <<clientVars, asideVars>>

\* _order after a poll query returned
OrderPolled ==
    /\ opc = "poll"
    /\ qpc = "returned"
    /\ IF PollKeyError(response)
       THEN /\ OperationRaises
            /\ order_log' = Append(order_log, "raised")
            /\ ConsumeFrame
       ELSE IF Completed(response, txid)
       THEN /\ TradeReturn(TRUE, <<OrderFee(response, op.volume, op.price)>>)
            /\ order_log' = Append(order_log, "complete")
            /\ UNCHANGED txid
            /\ ConsumeFrame
       ELSE /\ order_log' = IF Polls < MaxPolls
                            THEN order_log \o <<"pending", "sleep5", "poll">>
                            ELSE order_log
            /\ OrderPoll
            /\ UNCHANGED <<opc, op, txid, calls, sessionVars>>
    /\ UNCHANGED <<clientVars, asideVars>>

\* client.query raised: the exception goes up through the operation
Propagate ==
    /\ opc # "idle"
    /\ qpc = "raised"
    /\ OperationRaises
    /\ order_log' = IF opc \in {"submit", "poll"}
                    THEN Append(order_log, "raised") ELSE order_log
    /\ ConsumeFrame
    /\ UNCHANGED <<clientVars, asideVars>>

\* the operations of a session that read from the venue
ReadOps == {"time", "market_price", "book", "ohlc", "ohlc_from_trades"}

\* pages of trades _trades may fetch after the first
MaxPages == 0

\* the operation is defined for the venue
HasOp(name) ==
    /\ name \in ReadOps
    /\ (name = "book" => exchange # "KrakenFuture")

\* the method / endpoint of the stage-th query of a reading operation
ReadMethod(name, stage) ==
    LET trades == name = "ohlc_from_trades" \/ (name = "ohlc" /\ exchange # "Kraken")
    IN  IF exchange = "Kraken"
        THEN IF trades THEN (IF stage = 0 THEN "Time" ELSE "Trades")
             ELSE IF name = "time" THEN "Time"
             ELSE IF name = "market_price" THEN "Ticker"
             ELSE IF name = "book" THEN "Depth"
             ELSE "OHLC"
        ELSE IF exchange = "KrakenFuture"
        THEN IF trades THEN (IF stage = 0 THEN "instruments" ELSE "history")
             ELSE IF name = "time" THEN "instruments"
             ELSE "tickers"
        ELSE IF trades THEN (IF stage = 0 THEN "time"
                             ELSE IF stage = 1 THEN "trades"
                             ELSE "historicalTrades")
             ELSE IF name = "time" THEN "time"
             ELSE IF name = "market_price" THEN "ticker/price"
             ELSE "depth"

\* queries a reading operation issues at least
ReadStages(name) ==
    IF name = "ohlc_from_trades" \/ (name = "ohlc" /\ exchange # "Kraken")
    THEN 2 ELSE 1

\* a reading operation up to its first client.query
Read(name) ==
    /\ opc = "idle"
    /\ api \in open_sessions
    /\ HasOp(name)
    /\ op' = [NoOp EXCEPT !.name = name]
    /\ opc' = "read"
    /\ query("get", ReadMethod(name, 0), <<>>)
    /\ UNCHANGED <<txid, order_log, calls, sessionVars, clientVars, asideVars>>

\* a reading operation after a query returned: the next query, or the result
ReadReturned(more) ==
    /\ opc = "read"
    /\ qpc = "returned"
    /\ IF op.stage + 1 < ReadStages(op.name)
          \/ (more /\ ReadStages(op.name) > 1
                   /\ op.stage + 1 < ReadStages(op.name) + MaxPages)
       THEN /\ op' = [op EXCEPT !.stage = op.stage + 1]
            /\ query("get", ReadMethod(op.name, op.stage + 1), <<>>)
            /\ UNCHANGED opc
       ELSE /\ op' = NoOp
            /\ opc' = "idle"
            /\ ConsumeFrame
    /\ UNCHANGED <<txid, order_log, calls, sessionVars, clientVars, asideVars>>

\* Exchange.close
close ==
    /\ opc = "idle"
    /\ api \in open_sessions
    /\ open_sessions' = open_sessions \ {api}
    /\ UNCHANGED <<exchange, live, fee_maker, fee_taker, fee, n_buy, n_sell>>
    /\ UNCHANGED <<clientVars, queryVars, opVars, asideVars, swallowed>>

(***************************************************************************)
(* Threads that share one BinanceAPI client and call query on a signed     *)
(* endpoint.  Each statement of the loop of BinanceAPI.query that touches  *)
(* the lock, the clock, the network or self.response is a step.            *)
(***************************************************************************)
Threads == {1, 2}

\* what the venue answers to one request: a result, a business error
\* (a body with "code"), or an HTTP error status
Answers == {"ok", "code", "status"}

NoThread == [pc |-> "idle", api_call |-> 0, stamp |-> -1, got |-> 0]

NoShared == [of |-> 0, body |-> ""]

ThreadsIdle ==
    /\ threads = [t \in Threads |-> NoThread]
    /\ clock = 0
    /\ server = <<>>
    /\ shared = NoShared

\* a thread that takes the lock without waiting for it
T_Acquire_without_wait(t) ==
    /\ threads[t].pc = "acquire"
    /\ threads[t].api_call < MAX_ATTEMPTS
    /\ lock' = TRUE
    /\ threads' = [threads EXCEPT ![t].pc = "locked"]
    /\ UNCHANGED <<clock, server, shared>>

\* a thread enters query: the checks pass, the loop is entered
T_Call(t) ==
    /\ threads[t].pc \in {"idle", "returned", "raised"}
    /\ threads' = [threads EXCEPT ![t] = [NoThread EXCEPT !.pc = "acquire"]]
    /\ UNCHANGED <<lock, clock, server, shared>>

\* while api_call < 4: self.lock.acquire()
T_Acquire(t) ==
    /\ threads[t].pc = "acquire"
    /\ threads[t].api_call < MAX_ATTEMPTS
    /\ lock = FALSE
    /\ lock' = TRUE
    /\ threads' = [threads EXCEPT ![t].pc = "locked"]
    /\ UNCHANGED <<clock, server, shared>>

\* data = self._sign_message(data): the clock is read
T_Sign(t) ==
    /\ threads[t].pc = "locked"
    /\ clock < MaxClock
    /\ threads' = [threads EXCEPT ![t].pc = "signed", ![t].stamp = clock]
    /\ clock' = clock + 1
    /\ UNCHANGED <<lock, server, shared>>

\* the request reaches the server
T_Dispatch(t) ==
    /\ threads[t].pc = "signed"
    /\ server' = Append(server, threads[t].stamp)
    /\ threads' = [threads EXCEPT ![t].pc = "inflight"]
    /\ UNCHANGED <<lock, clock, shared>>

\* the request raises (timeout, transport failure): the exception leaves
\* query from inside the locked region
T_Fail(t) ==
    /\ threads[t].pc \in {"signed", "inflight"}
    /\ threads' = [threads EXCEPT ![t].pc = "raised"]
    /\ UNCHANGED <<lock, clock, server, shared>>

\* with ... as self.response: self.lock.release()
T_Receive(t, body) ==
    /\ threads[t].pc = "inflight"
    /\ shared' = [of |-> t, body |-> body]
    /\ lock' = FALSE
    /\ threads' = [threads EXCEPT ![t].pc = "received"]
    /\ UNCHANGED <<clock, server>>

\* resp = self.response.json() and what the loop does with it
T_Classify(t) ==
    /\ threads[t].pc = "received"
    /\ threads' = [threads EXCEPT
          ![t].got = shared.of,
          ![t].pc = IF shared.body = "code" THEN "acquire"
                    ELSE IF shared.body = "status" THEN "raised"
                    ELSE "returned",
          ![t].api_call = IF shared.body = "code" THEN @ + 1 ELSE @]
    /\ UNCHANGED <<lock, clock, server, shared>>

\* the else branch of the while
T_Exhausted(t) ==
    /\ threads[t].pc = "acquire"
    /\ ~(threads[t].api_call < MAX_ATTEMPTS)
    /\ threads' = [threads EXCEPT ![t].pc = "raised"]
    /\ UNCHANGED <<lock, clock, server, shared>>

\* the variables the threads do not touch
ThreadFrame ==
    UNCHANGED <<clientVars, sessionVars, opVars, candleVars, runs,
                qpc, q_method, q_verb, endpoint, headers, api_call, slept,
                nreq, n_business, nsign, nlock, response, error, exc,
                ticks, caller_data, data, auth, nonces>>

(***************************************************************************)
(* Trades and candles: _trades of the three venues and the aggregation of  *)
(* ohlc_from_trades.  A trade is [time, price], time in seconds; its id    *)
(* (Binance) is its place in the market.  A query of _trades is answered   *)
(* at once, with a page of the market.                                     *)
(***************************************************************************)
\* trades a venue returns for one query (the `limit` of the code is 1000)
PageSize == 2
\* trades of a market
MaxTrades == 3
\* trades _trades collects before the model stops following it
MaxCollected == 6

TradeTimes == {10, 50, 70, 190}
TradePrices == {1, 2}
WindowTimes == {0, 60, 200}

\* the markets: up to MaxTrades trades, oldest first, no two at one time
Markets ==
    {m \in UNION {[1..n -> [time : TradeTimes, price : TradePrices]] :
                     n \in 0..MaxTrades} :
        \A i \in DOMAIN m : i > 1 => m[i - 1].time < m[i].time}

\* Kraken gives and takes `since` in nanoseconds: the code multiplies by
\* 1e9.  The model scales by 1000, which keeps the products in 32 bits.
KRAKEN_TIME_SCALE == 1000

\* the sub-sequence of the trades that satisfy keep
RECURSIVE Filter(_, _)
Filter(seq, keep) ==
    IF seq = <<>> THEN <<>>
    ELSE (IF keep[Head(seq)] THEN <<Head(seq)>> ELSE <<>>) \o Filter(Tail(seq), keep)

FirstN(seq, n) == SubSeq(seq, 1, IF Len(seq) < n THEN Len(seq) ELSE n)

LastN(seq, n) == SubSeq(seq, (IF Len(seq) < n THEN 1 ELSE Len(seq) - n + 1), Len(seq))

RECURSIVE Reverse(_)
Reverse(seq) == IF seq = <<>> THEN <<>> ELSE Append(Reverse(Tail(seq)), Head(seq))

\* Kraken Trades: the first trades after `since`, oldest first
KrakenPage(from) ==
    FirstN(Filter(market, [t \in [time : TradeTimes, price : TradePrices] |->
                              t.time * KRAKEN_TIME_SCALE > from]), PageSize)

\* Kraken Futures history: the last trades before lastTime, newest first
FuturePage(last_time) ==
    Reverse(LastN(Filter(market, [t \in [time : TradeTimes, price : TradePrices] |->
                                     t.time < last_time]), PageSize))

\* Binance trades: the most recent trades, oldest first, with their ids
BinanceRecent ==
    LET from == IF Len(market) < PageSize THEN 1 ELSE Len(market) - PageSize + 1
    IN  [i \in 1..(Len(market) - from + 1) |->
            [id |-> from + i - 1, trade |-> market[from + i - 1]]]

\* Binance historicalTrades: the first trades with an id from fromId on
BinanceHistorical(from_id) ==
    LET from == IF from_id < 1 THEN 1 ELSE from_id
        n == IF Len(market) - from + 1 < PageSize
             THEN (IF Len(market) - from + 1 < 0 THEN 0 ELSE Len(market) - from + 1)
             ELSE PageSize
    IN  [i \in 1..n |-> [id |-> from + i - 1, trade |-> market[from + i - 1]]]

TradesOf(page) == [i \in DOMAIN page |-> page[i].trade]

NoCursor == [since |-> 0, until |-> 0, from_id |-> 0, started |-> FALSE]

CandlesIdle ==
    /\ market = <<>>
    /\ since = 0
    /\ until = 0
    /\ cursor = NoCursor
    /\ trade_data = <<>>
    /\ candles = <<>>
    /\ cpc = "idle"

\* Kraken._trades: the locals are set, then one pass of the loop per step
KrakenTrades ==
    IF ~cursor.started
    THEN /\ cursor' = [cursor EXCEPT !.started = TRUE,
                                     !.until = until * KRAKEN_TIME_SCALE,
                                     !.since = since * KRAKEN_TIME_SCALE]
         /\ UNCHANGED <<trade_data, cpc>>
    ELSE IF cursor.since < cursor.until
    THEN LET page == KrakenPage(cursor.since)
             last == IF page = <<>> THEN cursor.since
                     ELSE page[Len(page)].time * KRAKEN_TIME_SCALE
         IN  /\ cursor' = [cursor EXCEPT !.since = last]
             /\ trade_data' = trade_data \o page
             /\ cpc' = IF Len(page) =< 1 THEN "fetched" ELSE cpc
    ELSE /\ cpc' = "fetched"
         /\ UNCHANGED <<cursor, trade_data>>

\* KrakenFuture._trades
FutureTrades ==
    IF ~cursor.started
    THEN /\ cursor' = [cursor EXCEPT !.started = TRUE, !.until = until,
                                     !.since = since]
         /\ UNCHANGED <<trade_data, cpc>>
    ELSE IF cursor.since < cursor.until
    THEN LET page == FuturePage(cursor.until)
         IN  IF page = <<>>
             THEN /\ cpc' = "raised"
                  /\ UNCHANGED <<cursor, trade_data>>
             ELSE /\ cursor' = [cursor EXCEPT !.until = page[1].time]
                  /\ trade_data' = trade_data \o page
                  /\ UNCHANGED cpc
    ELSE /\ cpc' = "fetched"
         /\ UNCHANGED <<cursor, trade_data>>

\* Binance._trades
BinanceTrades ==
    IF ~cursor.started
    THEN LET page == BinanceRecent
         IN  IF page = <<>>
             THEN /\ cpc' = "raised"
                  /\ UNCHANGED <<cursor, trade_data>>
             ELSE /\ cursor' = [cursor EXCEPT
                        !.started = TRUE,
                        !.since = since,
                        !.until = page[Len(page)].trade.time,
                        !.from_id = page[1].id - PageSize]
                  /\ trade_data' = TradesOf(page)
                  /\ UNCHANGED cpc
    ELSE IF cursor.since < cursor.until
    THEN LET page == BinanceHistorical(cursor.from_id)
         IN  IF page = <<>>
             THEN /\ cpc' = "raised"
                  /\ UNCHANGED <<cursor, trade_data>>
             ELSE /\ cursor' = [cursor EXCEPT
                        !.until = page[Len(page)].trade.time,
                        !.from_id = @ - PageSize]
                  /\ trade_data' = trade_data \o TradesOf(page)
                  /\ cpc' = IF Len(page) =< 1 THEN "fetched" ELSE cpc
    ELSE /\ cpc' = "fetched"
         /\ UNCHANGED <<cursor, trade_data>>

\* the variables the candle operations do not touch
CandleFrame ==
    UNCHANGED <<clientVars, queryVars, sessionVars, opVars, threadVars, runs,
                market, since, until>>

\* one step of self._trades(pair, since, until)
Trades ==
    /\ cpc = "trades"
    /\ Len(trade_data) < MaxCollected
    /\ IF exchange = "Kraken" THEN KrakenTrades
       ELSE IF exchange = "KrakenFuture" THEN FutureTrades
       ELSE BinanceTrades
    /\ UNCHANGED candles
    /\ CandleFrame

\* seconds of a bucket of `interval` minutes
BucketSeconds(interval) == 60 * interval

\* the intervals ohlc_from_trades is asked for, in minutes
Intervals == {1, 2}

RECURSIVE SortedFrom(_, _)
SortedFrom(seq, times) ==
    IF times = {} THEN <<>>
    ELSE LET first == CHOOSE x \in times : \A y \in times : x =< y
         IN  Filter(seq, [t \in [time : TradeTimes, price : TradePrices] |->
                             t.time = first])
             \o SortedFrom(seq, times \ {first})

\* sort_values("date", ascending=True)
SortByTime(seq) == SortedFrom(seq, {seq[i].time : i \in DOMAIN seq})

\* the trades of bucket b
InBucket(sorted, width, b) ==
    Filter(sorted, [t \in [time : TradeTimes, price : TradePrices] |->
                      t.time \div width = b])

MaxPrice(seq) == CHOOSE x \in {seq[i].price : i \in DOMAIN seq} :
                    \A i \in DOMAIN seq : seq[i].price =< x

MinPrice(seq) == CHOOSE x \in {seq[i].price : i \in DOMAIN seq} :
                    \A i \in DOMAIN seq : x =< seq[i].price

RECURSIVE Row(_, _, _)
\* the row of bucket b after resample(...).ohlc().ffill(): the candle of its
\* trades, and for a bucket without trades each column filled from the row
\* before
Row(sorted, width, b) ==
    LET in == InBucket(sorted, width, b)
    IN  IF in # <<>>
        THEN [bucket |-> b, width |-> width,
              open |-> in[1].price, high |-> MaxPrice(in),
              low |-> MinPrice(in), close |-> in[Len(in)].price]
        ELSE LET before == Row(sorted, width, b - 1)
             IN  [bucket |-> b, width |-> width,
                  open |-> before.open, high |-> before.high,
                  low |-> before.low, close |-> before.close]

\* a frame with the rows of the buckets that hold a trade and no other
Ohlc_traded_buckets(trades, interval) ==
    LET sorted == SortByTime(trades)
        width == BucketSeconds(interval)
    IN  IF sorted = <<>> THEN <<>>
        ELSE LET lo == sorted[1].time \div width
                 hi == sorted[Len(sorted)].time \div width
                 traded == {b \in lo..hi : InBucket(sorted, width, b) # <<>>}
                 nth[b \in lo..hi] ==
                     Cardinality({c \in traded : c =< b})
             IN  [i \in 1..Cardinality(traded) |->
                     Row(sorted, width,
                         CHOOSE b \in traded : nth[b] = i)]

\* the tail of ohlc_from_trades: the frame of candles made from the trades
Ohlc(trades, interval) ==
    LET sorted == SortByTime(trades)
        width == BucketSeconds(interval)
    IN  IF sorted = <<>> THEN <<>>
        ELSE LET lo == sorted[1].time \div width
                 hi == sorted[Len(sorted)].time \div width
             IN  [i \in 1..(hi - lo + 1) |-> Row(sorted, width, lo + i - 1)]

\* ohlc_from_trades after _trades returned
ohlc_from_trades(interval) ==
    /\ cpc = "fetched"
    /\ candles' = Ohlc(trade_data, interval)
    /\ cpc' = "done"
    /\ UNCHANGED <<cursor, trade_data>>
    /\ CandleFrame

(***************************************************************************)
(* The signer run on its own, as a caller or the retry loop runs it.       *)
(***************************************************************************)
\* runs of the signer the model follows
MaxRuns == 2

\* the endpoint paths the signer is run with
SignedPaths ==
    IF api = "BinanceAPI" THEN {"/api/v3/order"}
    ELSE IF future THEN {"/api/v3/sendorder", "/api/v3/fills"}
    ELSE {"/0/private/Balance", "/0/private/AddOrder"}

\* the variables a run of the signer does not touch
SignFrame ==
    UNCHANGED <<clientVars, sessionVars, opVars, threadVars, candleVars,
                qpc, q_method, q_verb, headers, api_call, slept,
                nreq, n_business, nlock, lock, response, error, exc, nonces>>

\* one run of _sign_message on the map `data` is bound to, at the clock
\* value ticks; rebind: the caller binds `data` to what the signer returned,
\* as the loop of BinanceAPI.query does
SignMessage(path, rebind) ==
    /\ Len(runs) < MaxRuns
    /\ path \in SignedPaths
    /\ IF api = "BinanceAPI"
       THEN LET out == BinanceSignMessage(api_secret, data, ticks)
            IN  /\ runs' = Append(runs, [input |-> data, path |-> "", now |-> ticks,
                                         data |-> out, auth |-> NoAuth])
                /\ data' = IF rebind THEN out ELSE data
                /\ UNCHANGED <<caller_data, auth>>
       ELSE LET out == ApophisSignMessage(api_secret, data, path, ticks)
            IN  /\ runs' = Append(runs, [input |-> data, path |-> path, now |-> ticks,
                                         data |-> out.data, auth |-> out.auth])
                /\ data' = out.data
                /\ caller_data' = out.data
                /\ auth' = out.auth
    /\ endpoint' = path
    /\ nsign' = nsign + 1
    /\ UNCHANGED ticks
    /\ SignFrame

\* time passes between two runs
Tick ==
    /\ runs # <<>>
    /\ ticks < MaxClock
    /\ ticks' = ticks + 1
    /\ UNCHANGED <<runs, data, caller_data, auth, endpoint, nsign>>
    /\ SignFrame

(***************************************************************************)
(* The client and the session after construction.                          *)
(***************************************************************************)
Keys == {None, "key"}
\* no secret, a base64 text, a text with a digit missing, a text with
\* characters that are not base64 digits
Secrets == {None, "c2VjcmV0", "abc", "abcd!!!!"}

InitQuery ==
    /\ qpc = "idle"
    /\ q_method = ""
    /\ q_verb = ""
    /\ endpoint = ""
    /\ headers = {}
    /\ api_call = 0
    /\ slept = <<>>
    /\ nreq = 0
    /\ n_business = 0
    /\ nsign = 0
    /\ nlock = 0
    /\ lock = FALSE
    /\ response = NoResponse
    /\ error = <<>>
    /\ exc = NoException
    /\ ticks = 0
    /\ caller_data = <<>>
    /\ data = <<>>
    /\ auth = NoAuth
    /\ nonces = <<>>

InitOp ==
    /\ opc = "idle"
    /\ op = NoOp
    /\ txid = 0
    /\ order_log = <<>>
    /\ calls = <<>>

\* a client of its own: Apophis(key, secret, future) or BinanceAPI(key, secret)
Init ==
    /\ api \in {"Apophis", "BinanceAPI"}
    /\ future \in (IF api = "Apophis" THEN BOOLEAN ELSE {FALSE})
    /\ api_key \in Keys
    /\ api_secret \in Secrets
    /\ InitQuery
    /\ exchange = None
    /\ live = FALSE
    /\ fee_maker = 0
    /\ fee_taker = 0
    /\ fee = 0
    /\ n_buy = 0
    /\ n_sell = 0
    /\ open_sessions = {api}
    /\ swallowed = {}
    /\ InitOp
    /\ ThreadsIdle
    /\ CandlesIdle
    /\ runs = <<>>

\* the fee rates Kraken._fees falls back to, in 1/10000
KRAKEN_FEE_MAKER == 16
KRAKEN_FEE_TAKER == 26
\* the fee rates of KrakenFuture._fees, in 1/10000
FUTURE_FEE_MAKER == 2
FUTURE_FEE_TAKER == 5
\* the fee rates of Binance._fees, in 1/10000
BINANCE_FEE == 10

\* fee rates the venue may report to Kraken._fees, in 1/10000
VenueRates == {<<14, 24>>}

\* the key / secret pairs sessions are constructed with
SessionCredentials == {<<None, None>>, <<"key", "c2VjcmV0">>}

\* the rates _fees gives the constructor: Kraken asks the venue and falls
\* back to its defaults on ConnectionError (always, without credentials)
ConstructedRates ==
    IF exchange = "Kraken"
    THEN {<<KRAKEN_FEE_MAKER, KRAKEN_FEE_TAKER>>}
         \cup (IF MissingCredentials THEN {} ELSE VenueRates)
    ELSE IF exchange = "KrakenFuture"
    THEN {<<FUTURE_FEE_MAKER, FUTURE_FEE_TAKER>>}
    ELSE {<<BINANCE_FEE, BINANCE_FEE>>}

\* a session: Kraken(key, secret, live), KrakenFuture(...) or Binance(...)
InitExchange ==
    /\ exchange \in {"Kraken", "KrakenFuture", "Binance"}
    /\ api = IF exchange = "Binance" THEN "BinanceAPI" ELSE "Apophis"
    /\ future = (exchange = "KrakenFuture")
    /\ \E pair \in SessionCredentials :
          /\ api_key = pair[1]
          /\ api_secret = pair[2]
    /\ InitQuery
    /\ live \in BOOLEAN
    /\ \E rates \in ConstructedRates :
          /\ fee_maker = rates[1]
          /\ fee_taker = rates[2]
    /\ fee = 0
    /\ n_buy = 0
    /\ n_sell = 0
    /\ open_sessions = {"Apophis"} \cup {api}
    /\ swallowed = IF exchange = "Kraken"
                      /\ <<fee_maker, fee_taker>> = <<KRAKEN_FEE_MAKER, KRAKEN_FEE_TAKER>>
                   THEN {"ConnectionError"} ELSE {}
    /\ InitOp
    /\ ThreadsIdle
    /\ CandlesIdle
    /\ runs = <<>>

Next ==
    \/ \E verb \in CallerVerbs, method \in CallerMethods, map \in CallerMaps :
          CallQuery(verb, method, map)
    \/ Send
    \/ \E resp \in Responses : Receive(resp)
    \/ Exhausted

Spec == Init /\ [][Next]_vars

\* a session on which only buy and sell are called
NextOrder ==
    \/ \E volume \in Volumes, price \in Prices : buy(volume, price)
    \/ \E volume \in Volumes, price \in Prices : sell(volume, price)
    \/ OrderSubmitted
    \/ OrderPolled
    \/ Propagate
    \/ Send
    \/ \E resp \in SessionResponses : Receive(resp)
    \/ Exhausted

\* the venue answers the poll in flight with a response that reports the
\* submitted order as complete
ReceiveComplete ==
    /\ opc = "poll"
    /\ \E resp \in SessionResponses :
          /\ ~PollKeyError(resp)
          /\ Completed(resp, txid)
          /\ Receive(resp)

\* the client and the facade keep running, the venue answers every request,
\* and a venue that is polled again and again reports completion at last
SpecOrder ==
    /\ InitExchange
    /\ [][NextOrder]_vars
    /\ WF_vars(Send)
    /\ WF_vars(\E resp \in SessionResponses : Receive(resp))
    /\ WF_vars(Exhausted)
    /\ WF_vars(OrderSubmitted)
    /\ WF_vars(OrderPolled)
    /\ WF_vars(Propagate)
    /\ SF_vars(ReceiveComplete)

\* threads on one BinanceAPI client with credentials
InitThreads ==
    /\ api = "BinanceAPI"
    /\ future = FALSE
    /\ api_key = "key"
    /\ api_secret = "c2VjcmV0"
    /\ InitQuery
    /\ exchange = None
    /\ live = FALSE
    /\ fee_maker = 0
    /\ fee_taker = 0
    /\ fee = 0
    /\ n_buy = 0
    /\ n_sell = 0
    /\ open_sessions = {api}
    /\ swallowed = {}
    /\ InitOp
    /\ ThreadsIdle
    /\ CandlesIdle
    /\ runs = <<>>

NextThreads ==
    \/ \E t \in Threads : T_Call(t) /\ ThreadFrame
    \/ \E t \in Threads : T_Acquire(t) /\ ThreadFrame
    \/ \E t \in Threads : T_Sign(t) /\ ThreadFrame
    \/ \E t \in Threads : T_Dispatch(t) /\ ThreadFrame
    \/ \E t \in Threads : T_Fail(t) /\ ThreadFrame
    \/ \E t \in Threads, body \in Answers : T_Receive(t, body) /\ ThreadFrame
    \/ \E t \in Threads : T_Classify(t) /\ ThreadFrame
    \/ \E t \in Threads : T_Exhausted(t) /\ ThreadFrame

SpecThreads == InitThreads /\ [][NextThreads]_vars

\* a client with credentials whose signer is about to be run on a map
InitSign ==
    /\ api \in {"Apophis", "BinanceAPI"}
    /\ future \in (IF api = "Apophis" THEN BOOLEAN ELSE {FALSE})
    /\ api_key = "key"
    /\ api_secret \in {"c2VjcmV0", "b3RoZXI="}
    /\ InitQuery
    /\ exchange = None
    /\ live = FALSE
    /\ fee_maker = 0
    /\ fee_taker = 0
    /\ fee = 0
    /\ n_buy = 0
    /\ n_sell = 0
    /\ open_sessions = {api}
    /\ swallowed = {}
    /\ InitOp
    /\ ThreadsIdle
    /\ CandlesIdle
    /\ runs = <<>>

\* the parameter map of the caller is chosen
ChooseMap(map) ==
    /\ runs = <<>>
    /\ data = <<>>
    /\ map # <<>>
    /\ data' = map
    /\ caller_data' = map
    /\ UNCHANGED <<runs, ticks, auth, endpoint, nsign>>
    /\ SignFrame

NextSign ==
    \/ \E map \in CallerMaps : ChooseMap(map)
    \/ \E path \in {"/api/v3/order", "/api/v3/sendorder", "/api/v3/fills",
                    "/0/private/Balance", "/0/private/AddOrder"},
          rebind \in BOOLEAN : SignMessage(path, rebind)
    \/ Tick

SpecSign == InitSign /\ [][NextSign]_vars

\* ohlc_from_trades(pair, interval, since, until) on a session, at the call
\* of _trades
InitCandles ==
    /\ exchange \in {"Kraken", "KrakenFuture", "Binance"}
    /\ api = IF exchange = "Binance" THEN "BinanceAPI" ELSE "Apophis"
    /\ future = (exchange = "KrakenFuture")
    /\ api_key = "key"
    /\ api_secret = "c2VjcmV0"
    /\ InitQuery
    /\ live = FALSE
    /\ \E rates \in ConstructedRates :
          /\ fee_maker = rates[1]
          /\ fee_taker = rates[2]
    /\ fee = 0
    /\ n_buy = 0
    /\ n_sell = 0
    /\ open_sessions = {"Apophis"} \cup {api}
    /\ swallowed = IF exchange = "Kraken"
                      /\ <<fee_maker, fee_taker>> = <<KRAKEN_FEE_MAKER, KRAKEN_FEE_TAKER>>
                   THEN {"ConnectionError"} ELSE {}
    /\ InitOp
    /\ ThreadsIdle
    /\ runs = <<>>
    /\ market \in Markets
    /\ since \in WindowTimes
    /\ until \in WindowTimes
    /\ since < until
    /\ cursor = NoCursor
    /\ trade_data = <<>>
    /\ candles = <<>>
    /\ cpc = "trades"

NextCandles ==
    \/ Trades
    \/ \E interval \in Intervals : ohlc_from_trades(interval)

SpecCandles == InitCandles /\ [][NextCandles]_vars

\* trades of a list ohlc_from_trades is run on
MaxList == 3

\* the lists _trades may return: the pages come in the order of the venue,
\* and trades may share a time
TradeLists ==
    UNION {[1..n -> [time : TradeTimes, price : TradePrices]] : n \in 1..MaxList}

\* ohlc_from_trades at the return of _trades, on any list of trades
InitOhlc ==
    /\ exchange = "Kraken"
    /\ api = "Apophis"
    /\ future = FALSE
    /\ api_key = None
    /\ api_secret = None
    /\ InitQuery
    /\ live = FALSE
    /\ fee_maker = KRAKEN_FEE_MAKER
    /\ fee_taker = KRAKEN_FEE_TAKER
    /\ fee = 0
    /\ n_buy = 0
    /\ n_sell = 0
    /\ open_sessions = {api}
    /\ swallowed = {"ConnectionError"}
    /\ InitOp
    /\ ThreadsIdle
    /\ runs = <<>>
    /\ market = <<>>
    /\ since = 0
    /\ until = 200
    /\ cursor = NoCursor
    /\ trade_data \in TradeLists
    /\ candles = <<>>
    /\ cpc = "fetched"

NextOhlc == \E interval \in Intervals : ohlc_from_trades(interval)

SpecOhlc == InitOhlc /\ [][NextOhlc]_vars

NextExchange ==
    \/ \E volume \in Volumes, price \in Prices : buy(volume, price)
    \/ \E volume \in Volumes, price \in Prices : sell(volume, price)
    \/ OrderSubmitted
    \/ OrderPolled
    \/ Propagate
    \/ \E name \in ReadOps : Read(name)
    \/ \E more \in BOOLEAN : ReadReturned(more)
    \/ close
    \/ Send
    \/ \E resp \in SessionResponses : Receive(resp)
    \/ Exhausted

SpecExchange == InitExchange /\ [][NextExchange]_vars


(***************************************************************************)
(* Properties of the API clients, checked under Spec.                      *)
(***************************************************************************)
RECURSIVE SumSeq(_)
SumSeq(q) == IF q = <<>> THEN 0 ELSE Head(q) + SumSeq(Tail(q))

\* every response this call has received was classified as a business error
OnlyBusinessErrors ==
    n_business = nreq - (IF qpc = "inflight" THEN 1 ELSE 0)

\* C1: retry exhaustion.  While every response of a call is classified as a
\* business error the call sends at most 4 requests and sleeps 0, 2, 4, 0
\* seconds after the 1st..4th of them; after the 4th the loop is left, no
\* 5th request can be sent, and the call ends by raising ConnectionError
\* with 4 requests sent and 6 seconds slept.
C1_RetryExhaustion ==
    OnlyBusinessErrors =>
        /\ nreq =< 4
        /\ (qpc = "loop" => slept = SubSeq(<<0, 2, 4, 0>>, 1, nreq))
        /\ (qpc = "loop" /\ nreq = 4 => ENABLED Exhausted /\ ~ENABLED Send)
        /\ (qpc \in {"returned", "raised"} /\ nreq >= 1 =>
                /\ qpc = "raised"
                /\ exc.type = "ConnectionError"
                /\ nreq = 4
                /\ slept = <<0, 2, 4, 0>>
                /\ SumSeq(slept) = 6)

\* a call that raised ConnectionError after four business errors
C1_Witness ==
    /\ qpc = "raised"
    /\ exc.type = "ConnectionError"
    /\ OnlyBusinessErrors
    /\ nreq = 4
    /\ slept = <<0, 2, 4, 0>>

\* C2: bounded retry for every response sequence.  Whatever the responses,
\* one call sends at most 4 HTTP requests.
C2_BoundedRetry == nreq =< 4

\* C3 as stated: a response with a status outside {200, 201, 202} makes the
\* call raise the HTTP error on that attempt, without a sleep, whatever its
\* body holds.
C3_StatusRaisesWhateverBody ==
    [][ (qpc = "inflight" /\ qpc' # "inflight"
            /\ response'.status \notin {200, 201, 202})
        => (qpc' = "raised" /\ exc'.type = "HTTPError" /\ slept' = slept) ]_vars

\* the names of the registries of the client
RegistryNames ==
    IF api = "BinanceAPI"
    THEN BINANCE_API_PUBLIC \cup BINANCE_API_PUBLIC_KEY \cup BINANCE_API_SIGNED
    ELSE API_PUBLIC \cup API_PRIVATE_GET \cup API_PRIVATE_POST

\* the names of the registries of the client that need credentials
PrivateNames ==
    IF api = "BinanceAPI"
    THEN BINANCE_API_PUBLIC_KEY \cup BINANCE_API_SIGNED
    ELSE API_PRIVATE_GET \cup API_PRIVATE_POST

\* C4: a query for a name of no registry raises ValueError listing the full
\* valid set; it sends no request, signs nothing and takes no lock, with or
\* without credentials.
C4_InvalidMethod ==
    (qpc # "idle" /\ q_method \notin RegistryNames) =>
        /\ qpc = "raised"
        /\ exc.type = "ValueError"
        /\ exc.listed = RegistryNames
        /\ nreq = 0
        /\ nsign = 0
        /\ nlock = 0
        /\ ~lock

\* a client with credentials rejected an unknown name
C4_Witness ==
    /\ qpc = "raised"
    /\ exc.type = "ValueError"
    /\ q_method = "toto"
    /\ api_key # None
    /\ api_secret # None

\* C5: a query for a private name on a client whose key or secret is absent
\* raises ConnectionError "Need API keys to connect" with no request sent,
\* nothing signed and no lock taken; that error is raised for private names
\* only.
C5_AuthBeforeNetwork ==
    /\ (qpc # "idle" /\ q_method \in PrivateNames
            /\ (api_key = None \/ api_secret = None))
       => /\ qpc = "raised"
          /\ exc.type = "ConnectionError"
          /\ exc.msg = "Need API keys to connect"
          /\ nreq = 0
          /\ nsign = 0
          /\ nlock = 0
          /\ ~lock
    /\ exc.msg = "Need API keys to connect" => q_method \in PrivateNames
    /\ (qpc # "idle" /\ q_method \in RegistryNames \ PrivateNames
            /\ (q_verb \in BINANCE_VERBS \/ api = "Apophis"))
       => ~(qpc = "raised" /\ nreq = 0)

\* a client holding a key but no secret rejected a private name
C5_Witness ==
    /\ qpc = "raised"
    /\ exc.msg = "Need API keys to connect"
    /\ api_key # None
    /\ api_secret = None
    /\ nreq = 0


(***************************************************************************)
(* Claims about a session of the Exchange facade.                          *)
(***************************************************************************)
\* the call that returned last
LastCall(log) == log[Len(log)]

\* the event _order logged last
LastEvent == IF order_log = <<>> THEN "" ELSE order_log[Len(order_log)]

\* a buy or a sell returns in this step
CallReturns == calls' # calls

\* the bookkeeping fields of a session
Books == <<fee, n_buy, n_sell>>

RECURSIVE FeesOf(_)
\* the sum of the fees of the calls of a log that returned true
FeesOf(log) ==
    IF log = <<>> THEN 0
    ELSE FeesOf(SubSeq(log, 1, Len(log) - 1))
         + (IF LastCall(log).processed THEN LastCall(log).fee[1] ELSE 0)

\* the calls of one side that returned true
Processed(side) ==
    Cardinality({i \in DOMAIN calls : calls[i].side = side /\ calls[i].processed})

\* a simulated call returns in the step it is made: true, without a query,
\* with the counter of its side one higher and the fee of its arguments added
C6_SimulatedCall ==
    (~live /\ CallReturns) =>
        LET call == LastCall(calls')
            amount == call.volume * call.price
        IN  /\ calls' = Append(calls, call)
            /\ call.processed
            /\ opc = "idle" /\ opc' = "idle"
            /\ UNCHANGED queryVars
            /\ qpc = "idle" /\ nreq = 0
            /\ call.side = "buy" =>
                  /\ call.fee = <<amount * fee_taker>>
                  /\ fee' = fee + amount * fee_taker
                  /\ n_buy' = n_buy + 1
                  /\ n_sell' = n_sell
            /\ call.side = "sell" =>
                  /\ call.fee = <<amount * fee_maker>>
                  /\ fee' = fee + amount * fee_maker
                  /\ n_sell' = n_sell + 1
                  /\ n_buy' = n_buy

\* N identical simulated calls cost N times one; a buy and a sell cost the
\* sum of the two
C6_SimulatedTotals ==
    (~live /\ calls # <<>>) =>
        /\ (\A i \in DOMAIN calls : calls[i] = calls[1])
              => fee = Len(calls) * calls[1].fee[1]
        /\ (Len(calls) = 2 /\ calls[1].side # calls[2].side)
              => fee = calls[1].fee[1] + calls[2].fee[1]

\* C6: in simulation mode every buy (sell) call returns true, issues no API
\* query, adds exactly 1 to n_buy (n_sell) and leaves the other counter, and
\* adds volume * price * fee_taker (fee_maker) to the fee; N identical calls
\* from fee 0 give N times the fee of one call, a buy and a sell give the sum
\* of the two fees.
C6_SimulatedTrading == []C6_SimulatedTotals /\ [][C6_SimulatedCall]_vars

\* a simulated session after two identical buys, with a fee to pay
C6_Witness ==
    /\ ~live
    /\ Len(calls) = 2
    /\ calls[1] = calls[2]
    /\ calls[1].side = "buy"
    /\ n_buy = 2
    /\ fee > 0

\* the books agree with the calls that returned
C7_Books ==
    /\ fee = FeesOf(calls)
    /\ n_buy = Processed("buy")
    /\ n_sell = Processed("sell")
    /\ fee >= 0

\* the books move only when a buy or a sell returns true, and the fee only up
C7_BooksStep ==
    /\ fee' >= fee
    /\ Books' # Books => (CallReturns /\ LastCall(calls').processed)
    /\ (opc = "read" \/ opc' = "read" \/ open_sessions' # open_sessions)
          => UNCHANGED Books

C8_Events ==
    \A i \in DOMAIN order_log :
        /\ (i = 1) <=> (order_log[i] = "submit")
        /\ order_log[i] \in {"accepted", "rejected"} => i = 2
        /\ order_log[i] = "rejected" => i = Len(order_log)
        /\ order_log[i] = "sleep5" =>
              /\ order_log[i - 1] \in {"accepted", "pending"}
              /\ i < Len(order_log) /\ order_log[i + 1] = "poll"
        /\ order_log[i] = "poll" =>
              /\ order_log[i - 1] = "sleep5"
              /\ order_log[2] = "accepted"
        /\ order_log[i] = "pending" => order_log[i - 1] = "poll"
        /\ order_log[i] = "complete" =>
              /\ i = Len(order_log)
              /\ order_log[i - 1] = "poll"

\* the response in hand reports the order id as complete
ReportsComplete(resp, id) ==
    /\ resp.status = 200
    /\ exchange = "Kraken" => id \in resp.closed
    /\ exchange = "KrakenFuture" => id \in resp.closed
    /\ exchange = "Binance" => resp.order_status = "FILLED"

\* the id polled is the id of the submit response, and placed = true comes
\* from a poll response that reports it
C8_OrderStep ==
    /\ (opc = "submit" /\ opc' = "poll") =>
          /\ qpc = "returned"
          /\ response.txid \in Ids
          /\ txid' = response.txid
    /\ (opc = "poll" /\ opc' = "poll") => txid' = txid
    /\ (live /\ CallReturns /\ LastCall(calls').processed) =>
          /\ opc = "poll"
          /\ qpc = "returned"
          /\ q_method \in PollMethods \cup {"order"}
          /\ q_verb = (IF exchange = "KrakenFuture" \/ exchange = "Binance"
                       THEN "get" ELSE "post")
          /\ ReportsComplete(response, txid)
          /\ LastEvent' = "complete"
    /\ (opc # "poll" /\ qpc' = "inflight") => opc' # "poll"
    /\ (LastEvent = "rejected" /\ order_log' # order_log)
          => order_log' = <<"submit">>

StillPending ==
    /\ opc = "poll"
    /\ qpc = "returned"
    /\ ~PollKeyError(response)
    /\ ~ReportsComplete(response, txid)

\* a pending poll is always followed by another one
C9_PollsAgain == StillPending => ENABLED OrderPolled

\* the loop is left by a completion or by an exception only, and a pending
\* poll changes nothing but the polls
C9_PollStep ==
    /\ (opc = "poll" /\ opc' # "poll") =>
          \/ /\ ReportsComplete(response, txid)
             /\ CallReturns
             /\ LastCall(calls').processed
          \/ /\ LastEvent' = "raised"
             /\ (qpc = "raised" \/ PollKeyError(response))
             /\ ~CallReturns
    /\ (StillPending /\ order_log' # order_log) =>
          order_log' = order_log \o <<"pending", "sleep5", "poll">>
    /\ (StillPending /\ qpc' # qpc) =>
          /\ opc' = "poll"
          /\ qpc' = "loop"
          /\ q_method' = q_method
          /\ nreq' = 0
    /\ opc = "poll" /\ opc' = "poll" => UNCHANGED <<calls, fee, n_buy, n_sell>>

\* an order that is polled ends: filled, or with the exception of a query
C9_PolledOrderEnds ==
    (opc = "poll") ~> (opc = "idle" /\ LastEvent \in {"complete", "raised"})

C10_Results ==
    \A i \in DOMAIN calls :
        /\ ~calls[i].processed => calls[i].fee = <<>>
        /\ calls[i].processed => (Len(calls[i].fee) = 1 /\ calls[i].fee[1] \in Nat)

\* the submit response in hand does not accept the order
Rejects(resp) ==
    /\ exchange = "Kraken" => ("result" \in resp.keys /\ "txid" \notin resp.keys)
    /\ exchange = "KrakenFuture" =>
          ("sendStatus" \in resp.keys /\ resp.order_status # "placed")
    /\ exchange = "Binance" => "clientOrderId" \notin resp.keys

\* a rejected order returns false at once and the books stay
C10_RejectedStep ==
    /\ (opc = "submit" /\ qpc = "returned" /\ Rejects(response)
            /\ opc' # opc) =>
          /\ CallReturns
          /\ ~LastCall(calls').processed
    /\ (live /\ CallReturns /\ ~LastCall(calls').processed) =>
          /\ opc = "submit" /\ opc' = "idle"
          /\ Rejects(response)
          /\ order_log' = <<"submit", "rejected">>
          /\ qpc' = "idle" /\ nreq' = 0
          /\ UNCHANGED Books

Dispatching == {t \in Threads : threads[t].pc \in {"signed", "inflight"}}

\* the timestamps arrived in the order they were generated
InOrder(seq) == \A i, j \in DOMAIN seq : i < j => seq[i] < seq[j]

\* one thread at most is dispatching, under the lock, and the server has
\* seen the timestamps in their order
C11_OneDispatcher ==
    /\ Cardinality(Dispatching) =< 1
    /\ \A t \in Threads :
          threads[t].pc \in {"locked", "signed", "inflight"} => lock
    /\ Cardinality({t \in Threads : threads[t].pc = "locked"}
                   \cup Dispatching) =< 1
    /\ InOrder(server)

\* a timestamp is generated by a thread that holds the lock, and the lock is
\* released by the step that receives the response
C11_LockStep ==
    /\ clock' # clock =>
          \E t \in Threads : /\ threads[t].pc = "locked"
                             /\ threads'[t].stamp = clock
                             /\ lock /\ lock'
    /\ (lock /\ ~lock') =>
          \E t \in Threads : /\ threads[t].pc = "inflight"
                             /\ threads'[t].pc = "received"
                             /\ shared'.of = t
    /\ (~lock /\ lock') =>
          \E t \in Threads : /\ threads[t].pc = "acquire"
                             /\ threads'[t].pc = "locked"
                             /\ clock' = clock

\* C11: mutual exclusion of sign-and-dispatch on a shared BinanceAPI client.
\* At most one caller at a time is between the generation of its timestamp
\* and the response to the request that carries it: the lock is taken
\* before the timestamp is generated and released only after the response
\* has been received, so the requests reach the server in the order of
\* their timestamps.
C11_MutualExclusion == []C11_OneDispatcher /\ [][C11_LockStep]_vars

\* two threads have sent requests, and one waits for the lock while the
\* request of the other is in flight
C11_Witness ==
    /\ Len(server) >= 2
    /\ \E t, u \in Threads :
          /\ threads[t].pc = "inflight"
          /\ threads[u].pc = "acquire"
          /\ threads[u].stamp >= 0
          /\ threads[u].stamp < threads[t].stamp

\* C12: lock release on all exit paths.  However query is left (return,
\* ConnectionError after exhaustion, HTTP status error, an exception of the
\* HTTP call, an exception while signing) the lock is released: whenever no
\* query is in progress the lock is free.
C12_LockFreeWhenIdle ==
    (\A t \in Threads : threads[t].pc \in {"idle", "returned", "raised"})
        => ~lock


(***************************************************************************)
(* Claims about nonces and the signers.                                    *)
(***************************************************************************)
\* C13: nonce freshness.  The clock advances between sends, and every
\* authenticated request a client sends carries a nonce generated for that
\* send: the nonces of the requests of one query call, successive attempts
\* of the retry loop included, are strictly increasing.
C13_FreshNonces == InOrder(nonces)

\* the map holds a key that only a signer writes
SignerKeys(map) ==
    \/ Has(map, "timestamp")
    \/ Has(map, "signature")
    \/ Has(map, "nonce")
    \/ (Has(map, "recvWindow") /\ Get(map, "recvWindow") = Plain(RECV_WINDOW))

\* the call in progress is a private call of the spot client
SpotPrivate == api = "Apophis" /\ ~future /\ auth # NoAuth

\* the map of the caller of a BinanceAPI or futures query holds no key of a
\* signer; the map of the caller of a spot private query holds the nonce,
\* the same one as the body of the request and as the signed message
C14_CallerMap ==
    /\ (api = "BinanceAPI" \/ future) => ~SignerKeys(caller_data)
    /\ SpotPrivate =>
          /\ Has(caller_data, "nonce")
          /\ data = caller_data
          /\ Get(data, "nonce") = Plain(auth.nonce)
          /\ auth.signature.hmac[1].msg[1].v = Get(data, "nonce")
          /\ Tail(auth.signature.hmac[1].msg) = data

\* entering the loop leaves the map as the caller passed it, but for the
\* nonce of a spot private call, and no attempt of the loop changes it
C14_CallerMapStep ==
    /\ (qpc \notin {"loop", "inflight"} /\ qpc' = "loop") =>
          \E map \in CallerMaps :
              caller_data' = IF api = "Apophis" /\ ~future /\ auth' # NoAuth
                             THEN Update(map, "nonce", Plain(auth'.nonce))
                             ELSE map
    /\ qpc \in {"loop", "inflight"} => caller_data' = caller_data

\* C14: signer mutation asymmetry.  A BinanceAPI query and an Apophis
\* futures query leave the parameter map of the caller unchanged (no
\* recvWindow, timestamp, signature or nonce is added, over all attempts of
\* the retry loop); an Apophis spot private query adds the key nonce to the
\* map of the caller in place, and the nonce of the request body is the
\* nonce the API-Sign header was computed from.
C14_SignerMutation == []C14_CallerMap /\ [][C14_CallerMapStep]_vars

\* a spot private call that was retried, entered with a map that had a key
C14_Witness ==
    /\ SpotPrivate
    /\ nreq >= 2
    /\ Has(caller_data, "symbol")
    /\ Has(caller_data, "nonce")


\* two runs of the signer on the same map and path at the same clock value
\* gave the same output
SameOutput ==
    \A i, j \in DOMAIN runs :
        (/\ runs[i].input = runs[j].input
         /\ runs[i].path = runs[j].path
         /\ runs[i].now = runs[j].now)
            => (runs[i].data = runs[j].data /\ runs[i].auth = runs[j].auth)

\* the position of a key in a map
IndexOf(map, key) == CHOOSE i \in DOMAIN map : map[i].k = key

\* a map no signer has written to
Unsigned(map) == ~Has(map, "timestamp") /\ ~Has(map, "signature")

\* the payload BinanceAPI._sign_message made of input at clock value now
BinancePayload(input, out, now) ==
    \* the parameters of the caller keep their place and value
    /\ Len(out) >= Len(input)
    /\ \A i \in DOMAIN input :
          input[i].k \notin {"timestamp", "signature"} => out[i] = input[i]
    /\ MapKeys(out) = MapKeys(input) \cup {"recvWindow", "timestamp", "signature"}
    /\ \A i, j \in DOMAIN out : out[i].k = out[j].k => i = j
    \* recvWindow only when absent, then the timestamp, then the signature
    /\ Get(out, "recvWindow") = IF Has(input, "recvWindow")
                                THEN Get(input, "recvWindow")
                                ELSE Plain(RECV_WINDOW)
    /\ Get(out, "timestamp") = Plain(now)
    /\ Get(out, "signature").hmac # <<>>
    /\ Get(out, "signature").hmac[1].secret = api_secret
    /\ IndexOf(out, "timestamp") < IndexOf(out, "signature")
    /\ ~Has(input, "recvWindow") =>
          IndexOf(out, "recvWindow") < IndexOf(out, "timestamp")
    /\ Unsigned(input) =>
          /\ out = input
                   \o (IF Has(input, "recvWindow") THEN <<>>
                       ELSE <<Entry("recvWindow", Plain(RECV_WINDOW))>>)
                   \o <<Entry("timestamp", Plain(now)),
                        Entry("signature", Get(out, "signature"))>>
          /\ Get(out, "signature").hmac[1].msg = SubSeq(out, 1, Len(out) - 1)

\* the nonce and the signature Apophis._sign_message made at clock value now
ApophisOutput(run) ==
    /\ run.auth.nonce = run.now
    /\ run.auth.signature.hmac # <<>>
    /\ run.auth.signature.hmac[1].secret = api_secret
    /\ \E i \in DOMAIN run.auth.signature.hmac[1].msg :
          run.auth.signature.hmac[1].msg[i] = Entry(run.path, Plain(run.now))

TradesIn(row) ==
    {trade_data[i] : i \in {j \in DOMAIN trade_data :
                               trade_data[j].time \div row.width = row.bucket}}

\* the candle of a bucket with trades
CandleOfTrades(row) ==
    LET in == TradesIn(row)
        earliest == CHOOSE t \in in : \A u \in in : t.time =< u.time
        latest == CHOOSE t \in in : \A u \in in : u.time =< t.time
    IN  /\ row.open = earliest.price
        /\ row.close = latest.price
        /\ \A t \in in : row.low =< t.price /\ t.price =< row.high
        /\ \E t \in in : row.high = t.price
        /\ \E t \in in : row.low = t.price

\* the candle of a bucket without trades, after the candle `before`
CandleOfGap(row, before) ==
    /\ row.open = before.close
    /\ row.high = before.close
    /\ row.low = before.close
    /\ row.close = before.close

\* the candles of the buckets with trades are the candles of their trades
C16_TradedBuckets ==
    cpc = "done" =>
        \A i \in DOMAIN candles :
            TradesIn(candles[i]) # {} => CandleOfTrades(candles[i])

\* C16: candle values of ohlc_from_trades.  For every bucket with at least
\* one trade, open is the price of the earliest trade of the bucket, close
\* the price of the latest, high the maximum and low the minimum; for every
\* bucket without a trade, open, high, low and close all equal the close of
\* the bucket before.
C16_CandleValues ==
    cpc = "done" =>
        \A i \in DOMAIN candles :
            IF TradesIn(candles[i]) # {}
            THEN CandleOfTrades(candles[i])
            ELSE i > 1 /\ CandleOfGap(candles[i], candles[i - 1])

\* C17: trade window.  Every trade that _trades of Kraken, KrakenFuture and
\* Binance returned for the arguments since and until, and so every trade
\* ohlc_from_trades makes candles of, has a time t with since <= t <= until.
C17_TradeWindow ==
    cpc \in {"fetched", "done"} =>
        \A i \in DOMAIN trade_data :
            since =< trade_data[i].time /\ trade_data[i].time =< until


(***************************************************************************)
(* Claims about the life of a session and the errors of its operations.    *)
(***************************************************************************)
\* C18: session teardown.  After close(), or after the with-block was left,
\* every HTTP transport session that was created while the exchange session
\* was constructed is closed: none remains open.
C18_SessionTeardown == api \notin open_sessions => open_sessions = {}

\* an error the client raised inside an operation leaves the operation
C19_Surfaces ==
    (opc # "idle" /\ qpc = "raised") =>
        /\ opc' = "idle"
        /\ calls' = calls
        /\ opc \in {"submit", "poll"} => LastEvent' = "raised"

\* C19: error propagation.  Every error the API client raises inside a
\* facade operation (the fee lookup of the constructor, market_price, book,
\* time, buy, sell, ohlc, _trades) surfaces to the caller of the operation:
\* the facade never catches an error of the client to put a default value
\* or a success in its place.
C19_ErrorPropagation == [](swallowed = {}) /\ [][C19_Surfaces]_vars

\* a live buy or sell on a session without credentials raises
\* ConnectionError before any request
C20_NoCredentials ==
    (live /\ MissingCredentials /\ opc \in {"submit", "poll"}) =>
        /\ opc = "submit"
        /\ qpc = "raised"
        /\ exc.type = "ConnectionError"
        /\ nreq = 0
        /\ order_log = <<"submit">>

\* the step in which _order raises ends the call with that error and leaves
\* the bookkeeping; nothing touches the bookkeeping while the order runs
C20_FailedStep ==
    /\ (opc \in {"submit", "poll"} /\ qpc = "raised") =>
          /\ opc' = "idle"
          /\ LastEvent' = "raised"
          /\ calls' = calls
          /\ UNCHANGED Books
    /\ (order_log' # order_log /\ LastEvent' = "raised") =>
          /\ opc \in {"submit", "poll"}
          /\ opc' = "idle"
          /\ calls' = calls
          /\ UNCHANGED Books
    /\ (opc # "idle" /\ ~CallReturns) => UNCHANGED Books

\* C20: a failed live order leaves the session unchanged.  In live mode, if
\* _order raises (missing credentials on submit, ConnectionError or HTTP
\* error during submit or during a poll), buy / sell propagates the error
\* and fee, n_buy and n_sell keep the values they had before the call; a
\* live buy / sell on a session without credentials raises ConnectionError
\* without sending an HTTP request.
C20_FailedOrder == []C20_NoCredentials /\ [][C20_FailedStep]_vars

\* a live session whose first order was filled and whose second order
\* raised while it was polled
C20_Witness ==
    /\ live
    /\ opc = "idle"
    /\ Len(calls) = 1
    /\ calls[1].processed
    /\ n_buy + n_sell = 1
    /\ LastEvent = "raised"
    /\ \E i \in DOMAIN order_log : order_log[i] = "poll"


(***************************************************************************)
(* Claims about the attempts of one call.                                  *)
(***************************************************************************)
\* a call that returned sent k requests, 1 <= k <= 4, and slept the first
\* k - 1 entries of the schedule
C21_Returned ==
    qpc = "returned" =>
        /\ nreq \in 1..4
        /\ SumSeq(slept) = SumSeq(SubSeq(sleeper, 1, nreq - 1))
        /\ nreq = 1 => slept = <<>>

\* the attempt that returns is followed by no sleep
C21_NoSleepAfterSuccess == qpc' = "returned" => slept' = slept

\* C21: partial retry.  If the first response that is not classified as an
\* error and has a status of 200, 201 or 202 arrives on attempt k,
\* 1 <= k <= 4, the call returns after exactly k requests and a total sleep
\* of the first k - 1 entries of [0, 2, 4, 0]; a success on the first
\* attempt involves no sleep, and no sleep follows a successful attempt.
C21_PartialRetry == []C21_Returned /\ [][C21_NoSleepAfterSuccess]_vars


\* the call in progress on the Apophis client reached its request
Requested == api = "Apophis" /\ (qpc \in {"loop", "inflight"} \/ nreq >= 1)

\* the method of the call in progress is private
PrivateMethod == q_method \in API_PRIVATE_GET \/ q_method \in API_PRIVATE_POST

\* the path the signature of the request was computed with
SignedPath ==
    LET message == auth.signature.hmac[1].msg
    IN  IF ~future THEN message[1].k ELSE message[Len(message)].k

\* C22: endpoint path and signing coverage in Apophis.query.  On the spot
\* venue a public method is requested at /0/public/<method> with empty
\* headers and a private one at /0/private/<method> with the headers
\* API-Key and API-Sign; on the futures venue every method is requested at
\* /api/v3/<method>, with the headers APIKey, Nonce and Authent exactly when
\* it is private; the signature is computed with the path of the request.
C22_EndpointAndSigning ==
    Requested =>
        /\ (~future /\ ~PrivateMethod) =>
              /\ q_method \in API_PUBLIC
              /\ endpoint = "/0/public/" \o q_method
              /\ headers = {}
        /\ (~future /\ PrivateMethod) =>
              /\ endpoint = "/0/private/" \o q_method
              /\ headers = {"API-Key", "API-Sign"}
        /\ future =>
              /\ endpoint = "/api/v3/" \o q_method
              /\ headers = IF PrivateMethod THEN {"APIKey", "Nonce", "Authent"}
                                            ELSE {}
        /\ (auth # NoAuth) = PrivateMethod
        /\ PrivateMethod => SignedPath = endpoint

\* a private request of the spot venue is in flight
C22_Witness ==
    /\ Requested
    /\ ~future
    /\ qpc = "inflight"
    /\ PrivateMethod
    /\ endpoint = "/0/private/Balance"
    /\ auth # NoAuth


(***************************************************************************)
(* Claims about ohlc_from_trades as a function of the list of trades.      *)
(***************************************************************************)
\* the orderings of a list
Orderings(seq) ==
    {[i \in DOMAIN seq |-> seq[f[i]]] :
        f \in {g \in [DOMAIN seq -> DOMAIN seq] :
                  \A i, j \in DOMAIN seq : g[i] = g[j] => i = j}}

\* the interval the candles were asked for
IntervalOf(rows) == CHOOSE interval \in Intervals :
                        BucketSeconds(interval) = rows[1].width

\* C23: aggregation is independent of source order.  For any two orderings
\* of the same trade records, ohlc_from_trades yields the same candles (same
\* buckets, same open, high, low, close), also when several trades share a
\* timestamp; the candles are in ascending order of their period.
C23_OrderIndependent ==
    (cpc = "done" /\ candles # <<>>) =>
        /\ \A other \in Orderings(trade_data) :
              Ohlc(other, IntervalOf(candles)) = candles
        /\ \A i, j \in DOMAIN candles :
              i < j => candles[i].bucket < candles[j].bucket

\* the bucket of the earliest and of the latest trade
FirstBucket(width) ==
    CHOOSE b \in {trade_data[i].time \div width : i \in DOMAIN trade_data} :
        \A i \in DOMAIN trade_data : b =< trade_data[i].time \div width

LastBucket(width) ==
    CHOOSE b \in {trade_data[i].time \div width : i \in DOMAIN trade_data} :
        \A i \in DOMAIN trade_data : trade_data[i].time \div width =< b

\* C24: one row per bucket.  For a list of trades that is not empty and a
\* bucket width of interval minutes, ohlc_from_trades returns one candle
\* for every bucket from the bucket of the earliest trade to the bucket of
\* the latest one, without gap or duplicate: (bucketStart(latest) -
\* bucketStart(earliest)) / interval + 1 rows, with trades in the bucket or
\* without.
C24_OneRowPerBucket ==
    (cpc = "done" /\ trade_data # <<>>) =>
        /\ candles # <<>>
        /\ \A i \in DOMAIN candles :
              /\ candles[i].width = candles[1].width
              /\ candles[i].width \in {BucketSeconds(n) : n \in Intervals}
        /\ LET width == candles[1].width
           IN  /\ Len(candles) = LastBucket(width) - FirstBucket(width) + 1
               /\ \A i \in DOMAIN candles :
                     candles[i].bucket = FirstBucket(width) + i - 1

\* candles of one minute were made of trades in buckets 0 and 3: four rows,
\* two of them of buckets without a trade
C24_Witness ==
    /\ cpc = "done"
    /\ Len(candles) = 4
    /\ candles[1].width = 60
    /\ \E i \in DOMAIN candles :
          \A j \in DOMAIN trade_data :
              trade_data[j].time \div 60 # candles[i].bucket


\* the parameters of a map other than its signature
Unsignatured(map) == SelectSeq(map, LAMBDA e : e.k # "signature")

\* the entries of a map under a key
Occurrences(map, key) == Cardinality({i \in DOMAIN map : map[i].k = key})

\* C25: signed-payload consistency on every attempt.  For each attempt of a
\* BinanceAPI query on a signed endpoint, the 2nd, 3rd and 4th included, the
\* signature that is sent is the HMAC under the secret of exactly the other
\* parameters that are sent (those of the caller, recvWindow, the current
\* timestamp); the payload holds timestamp and signature once each, and no
\* value of an earlier attempt enters the signed message.
C25_SignedPayload ==
    (api = "BinanceAPI" /\ q_method \in BINANCE_API_SIGNED /\ qpc = "inflight") =>
        /\ Occurrences(data, "timestamp") = 1
        /\ Occurrences(data, "signature") = 1
        /\ Get(data, "timestamp") = Plain(nonces[Len(nonces)])
        /\ Get(data, "signature").hmac # <<>>
        /\ Get(data, "signature").hmac[1].secret = api_secret
        /\ Get(data, "signature").hmac[1].msg = Unsignatured(data)
        /\ ~Has(Get(data, "signature").hmac[1].msg, "signature")


\* C26: response isolation under concurrency.  When several threads call
\* query on one shared BinanceAPI client, each call returns, classifies as
\* an error or raises the status error for the response to its own request,
\* never for the response to the request of another caller.
C26_ResponseIsolation ==
    \A t \in Threads : threads[t].got \in {0, t}


(***************************************************************************)
(* Claims about the fee of a live order and about the secret.              *)
(***************************************************************************)
\* a live order of KrakenFuture or Binance is reported filled in this step
FilledLive ==
    /\ live
    /\ exchange \in {"KrakenFuture", "Binance"}
    /\ CallReturns
    /\ LastCall(calls').processed

\* the fee of the filled order depends on its side
C27_FilledStep ==
    FilledLive =>
        LET call == LastCall(calls')
        IN  /\ exchange = "KrakenFuture" =>
                  call.fee = IF call.side = "buy"
                             THEN <<call.volume * call.price * fee_taker>>
                             ELSE <<call.volume * call.price * fee_maker>>
            /\ exchange = "Binance" =>
                  call.fee \in (IF call.side = "buy"
                                THEN {<<fee_taker>>,
                                      <<call.volume * call.price * fee_taker>>}
                                ELSE {<<fee_maker>>,
                                      <<call.volume * call.price * fee_maker>>})
            /\ call.side = "buy" =>
                  fee' - fee = BuyFee(call.volume, call.price)

\* C27: side-dependent live fee.  For a filled live order KrakenFuture._order
\* returns volume * price * fee_taker for a buy and volume * price *
\* fee_maker for a sell, and Binance._order selects the taker rate for a buy
\* and the maker rate for a sell; so a filled live buy adds to the fee of
\* the session what a simulated buy of that volume and price adds.
C27_SideDependentFee == [][C27_FilledStep]_vars


\* the text is base64: digits in groups of four, the last group padded
ValidBase64(secret) ==
    LET chars == SecretChars(secret)
    IN  /\ \A i \in DOMAIN chars : chars[i] \in B64_ALPHABET \cup {"="}
        /\ Len(chars) % 4 = 0
        /\ \A i \in DOMAIN chars : chars[i] = "=" => i > Len(chars) - 2
        /\ \A i, j \in DOMAIN chars : (chars[i] = "=" /\ i < j) => chars[j] = "="

\* the client has a key and a secret, and the secret is not base64
UndecodableSecret ==
    /\ api = "Apophis"
    /\ ~MissingCredentials
    /\ ~ValidBase64(api_secret)

\* C28: undecodable secret.  An Apophis private query whose secret is not
\* valid base64 fails with an error during signing, before any HTTP request
\* and without entering the retry loop; in spot mode the parameter map of
\* the caller has received the nonce all the same.
C28_UndecodableSecret ==
    (UndecodableSecret /\ PrivateMethod /\ qpc # "idle") =>
        /\ qpc = "raised"
        /\ exc.type = "binascii.Error"
        /\ nreq = 0
        /\ slept = <<>>
        /\ ~future => Has(caller_data, "nonce")


(***************************************************************************)
(* Claims about the classification of a response.                          *)
(***************************************************************************)
\* the predicate of the venue on a body
BusinessError(resp) ==
    IF api = "BinanceAPI" THEN "code" \in resp.keys
    ELSE IF ~future THEN "error" \in resp.keys /\ resp.error # <<>>
    ELSE /\ "result" \in resp.keys
         /\ resp.result # "success"
         /\ "error" \in resp.keys
         /\ resp.error # <<>>

\* the step that receives a response classifies it as the venue's predicate
\* says, retries after an error and returns an accepted response
C29_Classified ==
    (qpc = "inflight" /\ qpc' # "inflight") =>
        /\ (n_business' = n_business + 1) = BusinessError(response')
        /\ n_business' \in {n_business, n_business + 1}
        /\ BusinessError(response') =>
              /\ qpc' = "loop"
              /\ api_call' = api_call + 1
              /\ api = "BinanceAPI" => error' = <<response'.msg>>
              /\ api = "Apophis" => error' = response'.error
        /\ (/\ ~BusinessError(response')
            /\ ~BodyKeyError(response')
            /\ response'.status \in {200, 201, 202}) =>
              /\ qpc' = "returned"
              /\ exc' = NoException
        /\ qpc' = "returned" =>
              /\ ~BusinessError(response')
              /\ response'.status \in {200, 201, 202}

\* the ConnectionError of an exhausted call carries the error of the last
\* attempt, the URL and the parameters
C29_Exhausted ==
    (qpc = "loop" /\ qpc' = "raised") =>
        /\ exc'.type = "ConnectionError"
        /\ BusinessError(response)
        /\ exc'.error # <<>>
        /\ exc'.error = (IF api = "BinanceAPI" THEN <<response.msg>>
                                              ELSE response.error)
        /\ exc'.url = uri \o endpoint
        /\ exc'.params = data

\* C29: error classification per venue.  An attempt is classified as a
\* business error, and retried, exactly when the error array of the
\* response is not empty (Apophis spot), when result is not "success" and
\* the error field is not empty (Apophis futures), when the response holds
\* a code field, msg being the error (BinanceAPI); a response that is not
\* classified as an error and has status 200, 201 or 202 is returned, and
\* the ConnectionError of exhaustion carries the error of the last attempt
\* with the URL and the parameters.
C29_ErrorClassification == [][C29_Classified /\ C29_Exhausted]_vars

\* a futures call returned a response that reports a failure without an
\* error, after a retry
C29_Witness ==
    /\ api = "Apophis"
    /\ future
    /\ qpc = "returned"
    /\ n_business = 1
    /\ nreq = 2
    /\ response.result = "error"
    /\ response.error = <<>>

====
